---- MODULE Spec2Model ----
(***************************************************************************)
(* A model of the perlin information-retrieval library: the concurrent     *)
(* indexing pipeline (index_documents / sort_and_group_chunk /             *)
(* invert_index / write_listing), the single-threaded Index, and the n-ary *)
(* query iterators.                                                        *)
(***************************************************************************)
EXTENDS Integers, Sequences, FiniteSets, TLC

(***************************************************************************)
(* Bounds of the model.  SORT_THREADS, DOCS_PER_CHUNK, CHUNK_CHANNEL_CAP   *)
(* and MERGED_CHANNEL_CAP stand for the code's 4, 256, 4 and 64; the model *)
(* scales them down so that full channels, several chunks per sorter and   *)
(* out-of-order sorters all happen within a few documents.                 *)
(***************************************************************************)
MaxDocs == 6
SORT_THREADS == 2
DOCS_PER_CHUNK == 2
CHUNK_CHANNEL_CAP == 1
MERGED_CHANNEL_CAP == 1
ChunkCapacity == 3

\* The documents the input iterator may yield (each a sequence of terms).
DocChoices == { <<"a", "b", "a">>, <<"b">> }

\* a collection may begin with documents without terms
DocChoicesAfter(consumed) ==
  IF \A d \in 1 .. Len(consumed) : consumed[d] = << >>
  THEN DocChoices \cup { << >> } ELSE DocChoices

Sorters == 0 .. (SORT_THREADS - 1)

Last(s) == s[Len(s)]

RECURSIVE Flatten(_)
Flatten(ss) == IF ss = <<>> THEN <<>> ELSE Head(ss) \o Flatten(Tail(ss))

(***************************************************************************)
(* Variable-byte codec: 7 payload bits per byte, low group first, the high *)
(* bit set on the terminating byte only.                                   *)
(***************************************************************************)
RECURSIVE VByteEncode(_)
VByteEncode(n) ==
  IF n < 128 THEN << n + 128 >>
  ELSE << n % 128 >> \o VByteEncode(n \div 128)

RECURSIVE VByteDecodeFrom(_, _, _)
VByteDecodeFrom(bytes, acc, mul) ==
  IF bytes = <<>> THEN <<>>
  ELSE IF Head(bytes) >= 128
       THEN << acc + (Head(bytes) - 128) * mul >> \o VByteDecodeFrom(Tail(bytes), 0, 1)
       ELSE VByteDecodeFrom(Tail(bytes), acc + Head(bytes) * mul, mul * 128)

VByteDecoder(bytes) == VByteDecodeFrom(bytes, 0, 1)

(***************************************************************************)
(* sort_and_group_chunk, lines 93-121: the stable sort by term_id and the  *)
(* grouping loop.  A triple is <<term_id, doc_id, position>>; a grouped    *)
(* chunk is a sequence of <<term_id, listing>>, a listing a sequence of    *)
(* <<doc_id, positions>>.                                                  *)
(***************************************************************************)
RECURSIVE InsertByKeyUnstable(_, _)
InsertByKeyUnstable(sorted, t) ==
  IF sorted = <<>> THEN << t >>
  ELSE IF Last(sorted)[1] < t[1] THEN Append(sorted, t)
  ELSE Append(InsertByKeyUnstable(SubSeq(sorted, 1, Len(sorted) - 1), t), Last(sorted))

RECURSIVE InsertByKey(_, _)
InsertByKey(sorted, t) ==
  IF sorted = <<>> THEN << t >>
  ELSE IF Last(sorted)[1] <= t[1] THEN Append(sorted, t)
  ELSE Append(InsertByKey(SubSeq(sorted, 1, Len(sorted) - 1), t), Last(sorted))

RECURSIVE SortByKeyFrom(_, _)
SortByKeyFrom(chunk, sorted) ==
  IF chunk = <<>> THEN sorted
  ELSE SortByKeyFrom(Tail(chunk), InsertByKey(sorted, Head(chunk)))

SortByKey(chunk) == SortByKeyFrom(chunk, <<>>)

SamePostingNever(posting, doc_id) == FALSE

\* lines 111-117: the posting compared against is the last one of the listing
SamePosting(posting, doc_id) == posting[1] = doc_id

RECURSIVE GroupFrom(_, _, _, _, _)
GroupFrom(chunk, i, grouped_chunk, last_tid, term_counter) ==
  IF i > Len(chunk) THEN grouped_chunk
  ELSE LET term_id == chunk[i][1]
           doc_id  == chunk[i][2]
           pos     == chunk[i][3]
       IN IF last_tid < term_id \/ i = 1
          THEN GroupFrom(chunk, i + 1,
                         Append(grouped_chunk, << term_id, << << doc_id, << pos >> >> >> >>),
                         term_id, term_counter + 1)
          ELSE LET listing == grouped_chunk[term_counter][2]
                   posting == Last(listing)
                   listing2 ==
                     IF SamePosting(posting, doc_id)
                     THEN [listing EXCEPT ![Len(listing)] = << posting[1], Append(posting[2], pos) >>]
                     ELSE Append(listing, << doc_id, << pos >> >>)
               IN GroupFrom(chunk, i + 1,
                            [grouped_chunk EXCEPT ![term_counter] = << @[1], listing2 >>],
                            last_tid, term_counter)

SortAndGroup(chunk) == GroupFrom(SortByKey(chunk), 1, <<>>, 0, 0)


(***************************************************************************)
(* write_listing, lines 159-173.  WrittenValues is the sequence of numbers *)
(* handed to VByteEncoded::new(..).write_to(target), in order.  u64/u32    *)
(* subtraction that would go below zero panics in a debug build and wraps  *)
(* in a release build; the wrap is modelled modulo 2^14 (TLC's integers    *)
(* are 32 bits wide, the code's 64).                                       *)
(***************************************************************************)
WrapModulus == 128 * 128

WrappingSub(a, b) == IF a >= b THEN a - b ELSE a - b + WrapModulus

RECURSIVE PositionDeltasFromZero(_, _)
PositionDeltasFromZero(positions, last_position) ==
  IF positions = <<>> THEN <<>>
  ELSE << WrappingSub(Head(positions), last_position) >>
       \o PositionDeltasFromZero(Tail(positions), last_position)

RECURSIVE PositionDeltas(_, _)
PositionDeltas(positions, last_position) ==
  IF positions = <<>> THEN <<>>
  ELSE << WrappingSub(Head(positions), last_position) >>
       \o PositionDeltas(Tail(positions), Head(positions))

\* lines 161-162: delta against the running base, which then becomes doc_id
DocDelta(doc_id, base_doc_id) == WrappingSub(doc_id, base_doc_id)

RECURSIVE WrittenValues(_, _)
WrittenValues(listing, base_doc_id) ==
  IF listing = <<>> THEN <<>>
  ELSE LET doc_id    == Head(listing)[1]
           positions == Head(listing)[2]
       IN << DocDelta(doc_id, base_doc_id), Len(positions) >>
          \o PositionDeltas(positions, 0)
          \o WrittenValues(Tail(listing), doc_id)

RECURSIVE PositionsUnderflow(_, _)
PositionsUnderflow(positions, last_position) ==
  /\ positions # <<>>
  /\ \/ Head(positions) < last_position
     \/ PositionsUnderflow(Tail(positions), Head(positions))

RECURSIVE Underflows(_, _)
Underflows(listing, base_doc_id) ==
  /\ listing # <<>>
  /\ \/ Head(listing)[1] < base_doc_id
     \/ PositionsUnderflow(Head(listing)[2], 0)
     \/ Underflows(Tail(listing), Head(listing)[1])

WriteListingResultStale(listing, base_doc_id) == base_doc_id

\* line 172: Ok(base_doc_id), the doc id of the last posting (base when empty)
WriteListingResult(listing, base_doc_id) ==
  IF listing = <<>> THEN base_doc_id ELSE Last(listing)[1]

RECURSIVE EncodeAll(_)
EncodeAll(values) ==
  IF values = <<>> THEN <<>> ELSE VByteEncode(Head(values)) \o EncodeAll(Tail(values))

\* write_listing, lines 159-173: the bytes written to the target and Ok(..)
WriteListing(listing, base_doc_id) ==
  [bytes |-> EncodeAll(WrittenValues(listing, base_doc_id)),
   result |-> WriteListingResult(listing, base_doc_id)]

(***************************************************************************)
(* ChunkedStorage: per term (array indexed by term id) a chain of          *)
(* fixed-capacity chunks and the last doc id written.  A write fills the   *)
(* tail chunk and links an overflow chunk when the tail is full.           *)
(***************************************************************************)
RECURSIVE AppendBytes(_, _)
AppendBytes(chunks, bytes) ==
  IF bytes = <<>> THEN chunks
  ELSE IF Len(Last(chunks)) < ChunkCapacity
       THEN AppendBytes([chunks EXCEPT ![Len(chunks)] = Append(@, Head(bytes))], Tail(bytes))
       ELSE AppendBytes(Append(chunks, << Head(bytes) >>), Tail(bytes))

EmptyChunk == [chunks |-> << <<>> >>, last_doc_id |-> 0]

StorageLen(st) == Len(st)

NewChunk(st, term_id) == Append(st, EmptyChunk)

\* the byte stream of a term: its chunk chain read in order
StoredBytes(st, term_id) == Flatten(st[term_id + 1].chunks)

(***************************************************************************)
(* invert_index, lines 143-154: one (term_id, listing) entry of a grouped  *)
(* chunk.  nwrites is the number of write_to calls that succeed before the *)
(* target reports a write error (all of them when no error occurs).        *)
(***************************************************************************)
\* a merger that takes every entry for a term without storage
UsesCurrentChunkNever(uterm_id, threshold) == FALSE

\* line 146
UsesCurrentChunk(uterm_id, threshold) == uterm_id < threshold

WriteEntry(st, threshold, term_id, listing, nwrites, completed) ==
  LET st1 == IF UsesCurrentChunk(term_id, threshold) THEN st ELSE NewChunk(st, term_id)
      slot == IF UsesCurrentChunk(term_id, threshold) THEN term_id + 1 ELSE Len(st1)
      base_doc_id == st1[slot].last_doc_id
      values == WrittenValues(listing, base_doc_id)
      written == SubSeq(values, 1, nwrites)
      st2 == [st1 EXCEPT ![slot].chunks = AppendBytes(@, EncodeAll(written))]
  IN IF completed
     THEN [st2 EXCEPT ![slot].last_doc_id = WriteListingResult(listing, base_doc_id)]
     ELSE st2

NumWrites(listing) == Len(WrittenValues(listing, 0))

(***************************************************************************)
(* index_documents, lines 52-61: the triples of one document and the       *)
(* vocabulary after it.  term_ids is a function from the terms seen to     *)
(* their ids; term_count is its size.                                      *)
(***************************************************************************)
\* a vocabulary that numbers a term again at every sight
AssignTermIdAlways(term_ids, term) ==
  [t \in (DOMAIN term_ids) \cup {term} |->
     IF t = term THEN Cardinality(DOMAIN term_ids) ELSE term_ids[t]]

\* lines 54-60: term_count is the number of entries of term_ids
AssignTermId(term_ids, term) ==
  IF term \in DOMAIN term_ids THEN term_ids
  ELSE [t \in (DOMAIN term_ids) \cup {term} |->
          IF t = term THEN Cardinality(DOMAIN term_ids) ELSE term_ids[t]]

RECURSIVE EmitFrom(_, _, _, _)
EmitFrom(document, term_position, term_ids, doc_id) ==
  IF term_position >= Len(document) THEN [buffer |-> <<>>, term_ids |-> term_ids]
  ELSE LET term == document[term_position + 1]
           ids  == AssignTermId(term_ids, term)
           rest == EmitFrom(document, term_position + 1, ids, doc_id)
       IN [buffer |-> << << ids[term], doc_id, term_position >> >> \o rest.buffer,
           term_ids |-> rest.term_ids]

EmitDocument(document, term_ids, doc_id) == EmitFrom(document, 0, term_ids, doc_id)

\* From<SendError> for Error and From<StorageError>: what try! turns a failed
\* channel send and a failed write into
FromSendError == "ThreadPanic"
FromWriteError == "WriteError"


(***************************************************************************)
(* State of one run of index_documents.                                    *)
(*   ppc, document_count, chunk_count, buffer, term_ids, join_index,       *)
(*   result: the calling thread (the producer);  docs is the collection    *)
(*   consumed so far.  When invert_index is driven directly, as the tests  *)
(*   of indexing.rs do, ppc = "feed" is the thread holding the sender and  *)
(*   feed the grouped chunks it has yet to send.                           *)
(*   chunk_ch[s]: the sync_channel(4) to sorter s;  sorter[s]: its program *)
(*   counter, the chunk id it holds and its grouped chunk;  sync: the      *)
(*   shared AtomicUsize.                                                   *)
(*   merged_ch: the sync_channel(64) to the merger, each message tagged    *)
(*   with the id of its chunk;  mpc, mchunk, threshold, storage: the       *)
(*   merger (invert_index);  received: the messages the merger has taken   *)
(*   from its channel, in order;  appended[t+1]: the postings completely   *)
(*   written for term id t, in order;  fault: what went wrong in the       *)
(*   merger, if anything.                                                  *)
(***************************************************************************)
VARIABLES ppc, docs, feed, document_count, chunk_count, buffer, term_ids,
          join_index, result, chunk_ch, sorter, sync, merged_ch, mpc, mchunk, threshold,
          storage, received, appended, fault,
          idx, answer, indexed, commits, nary, drained, calls,
          args, returned, walk, hierarchy

producerVars == << ppc, docs, feed, document_count, chunk_count, buffer, term_ids,
                   join_index, result >>
sorterVars == << sorter, sync >>
mergerVars == << mpc, mchunk, threshold, storage, received, appended, fault >>
pipeVars == << producerVars, chunk_ch, sorterVars, merged_ch, mergerVars >>
\* idx, answer: an Index (index/mod.rs) and the result of the last query_atom;
\* indexed: the documents given to it so far, in order;  commits: how many
\* documents had been given to it at each of its last two commits
indexVars == << idx, answer, indexed, commits >>
\* nary: an NAryQueryIterator; drained: what next() and next_seek() have
\* returned; calls: every call made on it, with its target and outcome
iterVars == << nary, drained, calls >>

\* args, returned: the arguments of a function called on its own and what it
\* returned;  hierarchy: a Hierarchy (field/hierarchy.rs)
pureVars == << args, returned, walk, hierarchy >>

vars == << pipeVars, indexVars, iterVars, pureVars >>

NotReturned == [done |-> FALSE, value |-> <<>>]
\* walk: the locals of positional_intersect while its loop runs (lhs_ptr,
\* rhs_ptr, result) and the number of iterations made
NoWalk == [lhs_ptr |-> 0, rhs_ptr |-> 0, result |-> <<>>, iterations |-> 0]
\* Hierarchy::new(), lines 8-10: nodes is field 0, roots is field 1
NewHierarchy == [nodes |-> << >>, roots |-> <<>>, panicked |-> FALSE]
PureIdle == args = <<>> /\ returned = NotReturned /\ walk = NoWalk /\ hierarchy = NewHierarchy

NoAnswer == [asked |-> FALSE, atom |-> "", postings |-> <<>>]
NoIterator ==
  [pos_operator |-> "None", bool_operator |-> "None", operands |-> <<>>, peeked_value |-> << >>]

IndexIdle ==
  /\ idx = [listings |-> <<>>, vocabulary |-> << >>, doc_count |-> 0]
  /\ answer = NoAnswer
  /\ indexed = <<>>
  /\ commits = <<>>
IterIdle == nary = NoIterator /\ drained = <<>> /\ calls = <<>>

IdleSorter == [pc |-> "recv", id |-> 0, grouped |-> <<>>]

\* the state after lines 30-49: threads spawned, main's merged_tx dropped
PipeInit ==
  /\ ppc = "loop"
  /\ docs = <<>>
  /\ feed = <<>>
  /\ document_count = 0
  /\ chunk_count = 0
  /\ buffer = <<>>
  /\ term_ids = << >>
  /\ join_index = 0
  /\ result = "none"
  /\ chunk_ch = [s \in Sorters |-> <<>>]
  /\ sorter = [s \in Sorters |-> IdleSorter]
  /\ sync = 0
  /\ merged_ch = <<>>
  /\ mpc = "recv"
  /\ mchunk = <<>>
  /\ threshold = 0
  /\ storage = <<>>
  /\ received = <<>>
  /\ appended = <<>>
  /\ fault = "none"
  /\ IndexIdle
  /\ IterIdle
  /\ PureIdle

SorterGone(s) == sorter[s].pc \in {"done", "panicked"}
MergerGone == mpc \in {"done_ok", "done_err", "panicked"}
\* line 43: index_documents drops its own merged_tx once the sorters have
\* their clones; a test driving invert_index holds the sender while it feeds
MergedTxDropped == ppc # "feed"
\* chunk_tx is dropped at line 73, and with every return of index_documents
ChunkTxDropped == ppc \in {"join_sort", "join_inv", "returned"}

\* a producer that gives every buffer to the first sorter
SorterOfFirst(count) == 0

\* line 65 / line 72: the sorter a chunk goes to
SorterOf(count) == count % SORT_THREADS

\* line 64: a buffer is handed off after every DOCS_PER_CHUNK-th document
BufferFull(count) == count % DOCS_PER_CHUNK = 0

\* lines 50-64: the next document of the input
ProducerDocument ==
  /\ ppc = "loop"
  /\ document_count < MaxDocs
  /\ \E document \in DocChoicesAfter(docs) :
       LET e == EmitDocument(document, term_ids, document_count)
       IN /\ docs' = Append(docs, document)
          /\ buffer' = buffer \o e.buffer
          /\ term_ids' = e.term_ids
  /\ document_count' = document_count + 1
  /\ ppc' = IF BufferFull(document_count + 1) THEN "send" ELSE "loop"
  /\ UNCHANGED << pureVars, indexVars, iterVars, feed, chunk_count, join_index, result, chunk_ch, sorterVars,
                  merged_ch, mergerVars >>

\* line 50: the input iterator is exhausted
ProducerEndOfInput ==
  /\ ppc = "loop"
  /\ ppc' = "final_send"
  /\ UNCHANGED << pureVars, indexVars, iterVars, docs, feed, document_count, chunk_count, buffer, term_ids,
                  join_index, result, chunk_ch, sorterVars, merged_ch, mergerVars >>

\* lines 65-69 and 72-73: send (chunk_count, buffer) to a sorter
ProducerSend ==
  /\ ppc \in {"send", "final_send"}
  /\ LET index == SorterOf(chunk_count)
     IN /\ ~SorterGone(index)
        /\ Len(chunk_ch[index]) < CHUNK_CHANNEL_CAP
        /\ chunk_ch' = [chunk_ch EXCEPT ![index] = Append(@, << chunk_count, buffer >>)]
  /\ IF ppc = "send"
     THEN /\ buffer' = <<>>
          /\ chunk_count' = chunk_count + 1
          /\ ppc' = "loop"
     ELSE /\ ppc' = "join_sort"
          /\ UNCHANGED << buffer, chunk_count >>
  /\ UNCHANGED << pureVars, indexVars, iterVars, docs, feed, document_count, term_ids, join_index, result,
                  sorterVars, merged_ch, mergerVars >>

\* lines 67 and 72: try! on a send whose receiver is gone
ProducerSendFails ==
  /\ ppc \in {"send", "final_send"}
  /\ SorterGone(SorterOf(chunk_count))
  /\ result' = FromSendError
  /\ ppc' = "returned"
  /\ UNCHANGED << pureVars, indexVars, iterVars, docs, feed, document_count, chunk_count, buffer, term_ids,
                  join_index, chunk_ch, sorterVars, merged_ch, mergerVars >>

JoinSortResultIgnored(panicked) == "none"

\* line 75: what any() does with the join of one sorter thread
JoinSortResult(panicked) == IF panicked THEN "ThreadPanic" ELSE "none"

\* lines 75-77: join the sorter threads in order, stop at the first panic
ProducerJoinSorter ==
  /\ ppc = "join_sort"
  /\ join_index < SORT_THREADS
  /\ SorterGone(join_index)
  /\ LET r == JoinSortResult(sorter[join_index].pc = "panicked")
     IN IF r # "none"
        THEN /\ result' = r
             /\ ppc' = "returned"
             /\ UNCHANGED join_index
        ELSE /\ join_index' = join_index + 1
             /\ ppc' = IF join_index + 1 = SORT_THREADS THEN "join_inv" ELSE "join_sort"
             /\ UNCHANGED result
  /\ UNCHANGED << pureVars, indexVars, iterVars, docs, feed, document_count, chunk_count, buffer, term_ids,
                  chunk_ch, sorterVars, merged_ch, mergerVars >>

\* lines 79-84: what the join of the merger thread is turned into
JoinInvResult(m) ==
  CASE m = "done_ok"  -> "Ok"
    [] m = "done_err" -> FromWriteError
    [] m = "panicked" -> "ThreadPanic"

ProducerJoinMerger ==
  /\ ppc = "join_inv"
  /\ MergerGone
  /\ result' = JoinInvResult(mpc)
  /\ ppc' = "returned"
  /\ UNCHANGED << pureVars, indexVars, iterVars, docs, feed, document_count, chunk_count, buffer, term_ids,
                  join_index, chunk_ch, sorterVars, merged_ch, mergerVars >>


(***************************************************************************)
(* sort_and_group_chunk, one thread per sorter s.                          *)
(***************************************************************************)
\* line 93: ids.recv() yields a chunk; lines 95-121 sort and group it
SorterRecv(s) ==
  /\ sorter[s].pc = "recv"
  /\ chunk_ch[s] # <<>>
  /\ sorter' = [sorter EXCEPT ![s] = [pc |-> "load",
                                      id |-> Head(chunk_ch[s])[1],
                                      grouped |-> SortAndGroup(Head(chunk_ch[s])[2])]]
  /\ chunk_ch' = [chunk_ch EXCEPT ![s] = Tail(@)]
  /\ UNCHANGED << pureVars, indexVars, iterVars, producerVars, sync, merged_ch, mergerVars >>

\* line 93: ids.recv() fails, every sender is dropped and the channel is empty
SorterExit(s) ==
  /\ sorter[s].pc = "recv"
  /\ chunk_ch[s] = <<>>
  /\ ChunkTxDropped
  /\ sorter' = [sorter EXCEPT ![s] = [IdleSorter EXCEPT !.pc = "done"]]
  /\ UNCHANGED << pureVars, indexVars, iterVars, producerVars, chunk_ch, sync, merged_ch, mergerVars >>

\* lines 125-126: the hand-off test.  A load that finds another value changes
\* nothing and is a stuttering step.
MayHandOffUnordered(atm, id) == TRUE

\* a sorter that waits for the counter to pass its chunk id
MayHandOffLate(atm, id) == atm = id + 1

\* a sorter that does not wait for the chunks before its own
MayHandOffEarly(atm, id) == atm <= id

MayHandOff(atm, id) == atm = id

SorterLoad(s) ==
  /\ sorter[s].pc = "load"
  /\ MayHandOff(sync, sorter[s].id)
  /\ sorter' = [sorter EXCEPT ![s].pc = "send"]
  /\ UNCHANGED << pureVars, indexVars, iterVars, producerVars, chunk_ch, sync, merged_ch, mergerVars >>

\* line 127: grouped_chunks.send(grouped_chunk) succeeds
SorterSend(s) ==
  /\ sorter[s].pc = "send"
  /\ ~MergerGone
  /\ Len(merged_ch) < MERGED_CHANNEL_CAP
  /\ merged_ch' = Append(merged_ch, << sorter[s].id, sorter[s].grouped >>)
  /\ sorter' = [sorter EXCEPT ![s].pc = "fetch_add", ![s].grouped = <<>>]
  /\ UNCHANGED << pureVars, indexVars, iterVars, producerVars, chunk_ch, sync, mergerVars >>

\* line 127: the receiver is gone, unwrap() panics; the thread's receiver and
\* the buffers queued in it are dropped
SorterSendPanics(s) ==
  /\ sorter[s].pc = "send"
  /\ MergerGone
  /\ sorter' = [sorter EXCEPT ![s] = [IdleSorter EXCEPT !.pc = "panicked"]]
  /\ chunk_ch' = [chunk_ch EXCEPT ![s] = <<>>]
  /\ UNCHANGED << pureVars, indexVars, iterVars, producerVars, sync, merged_ch, mergerVars >>

\* a sorter that adds two to the counter
SorterFetchAddTwice(s) ==
  /\ sorter[s].pc = "fetch_add"
  /\ sync' = sync + 2
  /\ sorter' = [sorter EXCEPT ![s] = IdleSorter]
  /\ UNCHANGED << pureVars, indexVars, iterVars, producerVars, chunk_ch, merged_ch, mergerVars >>

\* line 128: sync.fetch_add(1)
SorterFetchAdd(s) ==
  /\ sorter[s].pc = "fetch_add"
  /\ sync' = sync + 1
  /\ sorter' = [sorter EXCEPT ![s] = IdleSorter]
  /\ UNCHANGED << pureVars, indexVars, iterVars, producerVars, chunk_ch, merged_ch, mergerVars >>

(***************************************************************************)
(* invert_index, the merger thread.                                        *)
(***************************************************************************)
\* a merger that reads storage.len() once, before its loop
MergerRecvStaleThreshold ==
  /\ mpc = "recv"
  /\ merged_ch # <<>>
  /\ mchunk' = Head(merged_ch)[2]
  /\ received' = Append(received, Head(merged_ch))
  /\ merged_ch' = Tail(merged_ch)
  /\ mpc' = IF Head(merged_ch)[2] = <<>> THEN "recv" ELSE "write"
  /\ UNCHANGED << pureVars, indexVars, iterVars, producerVars, chunk_ch, sorterVars, threshold, storage,
                  appended, fault >>

\* line 141: recv() yields a grouped chunk; line 142 reads the threshold
MergerRecv ==
  /\ mpc = "recv"
  /\ merged_ch # <<>>
  /\ mchunk' = Head(merged_ch)[2]
  /\ received' = Append(received, Head(merged_ch))
  /\ merged_ch' = Tail(merged_ch)
  /\ threshold' = StorageLen(storage)
  /\ mpc' = IF Head(merged_ch)[2] = <<>> THEN "recv" ELSE "write"
  /\ UNCHANGED << pureVars, indexVars, iterVars, producerVars, chunk_ch, sorterVars, storage, appended, fault >>

\* lines 141, 156: recv() fails once every sender is dropped; Ok(storage)
MergerFinish ==
  /\ mpc = "recv"
  /\ merged_ch = <<>>
  /\ MergedTxDropped
  /\ \A s \in Sorters : SorterGone(s)
  /\ mpc' = "done_ok"
  /\ UNCHANGED << pureVars, indexVars, iterVars, producerVars, chunk_ch, sorterVars, merged_ch, mchunk, threshold,
                  storage, received, appended, fault >>

\* the first nposts postings of an entry, added to the log of its term
LogEntry(log, thr, term_id, listing, nposts) ==
  LET log1 == IF UsesCurrentChunk(term_id, thr) THEN log ELSE Append(log, <<>>)
      slot == IF UsesCurrentChunk(term_id, thr) THEN term_id + 1 ELSE Len(log1)
  IN [log1 EXCEPT ![slot] = @ \o SubSeq(listing, 1, nposts)]

\* how many postings of a listing are complete after nwrites write_to calls
RECURSIVE CompletePostings(_, _)
CompletePostings(listing, nwrites) ==
  IF listing = <<>> \/ nwrites < 2 + Len(Head(listing)[2]) THEN 0
  ELSE 1 + CompletePostings(Tail(listing), nwrites - 2 - Len(Head(listing)[2]))

\* lines 143-154: one (term_id, listing) entry written completely.  When a
\* subtraction at line 161 or 167 goes below zero the release build wraps and
\* writes on, the debug build panics.
MergerWrite ==
  /\ mpc = "write"
  /\ LET term_id == Head(mchunk)[1]
         listing == Head(mchunk)[2]
         base == IF UsesCurrentChunk(term_id, threshold)
                 THEN storage[term_id + 1].last_doc_id ELSE 0
         under == Underflows(listing, base)
     IN \E build \in (IF under THEN {"release", "debug"} ELSE {"any"}) :
          IF build = "debug"
          THEN /\ storage' = <<>>
               /\ appended' = <<>>
               /\ mchunk' = <<>>
               /\ mpc' = "panicked"
               /\ fault' = "underflow"
               /\ merged_ch' = <<>>
          ELSE /\ storage' = WriteEntry(storage, threshold, term_id, listing,
                                        NumWrites(listing), TRUE)
               /\ appended' = LogEntry(appended, threshold, term_id, listing,
                                       Len(listing))
               /\ mchunk' = Tail(mchunk)
               /\ mpc' = IF Tail(mchunk) = <<>> THEN "recv" ELSE "write"
               /\ fault' = IF under THEN "underflow" ELSE fault
               /\ UNCHANGED merged_ch
  /\ UNCHANGED << pureVars, indexVars, iterVars, producerVars, chunk_ch, sorterVars, threshold, received >>

\* lines 152, 163-169: a write_to fails after nwrites successful ones;
\* write_listing returns the error and line 153 is not reached
MergerWriteError ==
  /\ mpc = "write"
  /\ LET term_id == Head(mchunk)[1]
         listing == Head(mchunk)[2]
     IN \E nwrites \in 0 .. (NumWrites(listing) - 1) :
          /\ storage' = WriteEntry(storage, threshold, term_id, listing, nwrites, FALSE)
          /\ appended' = LogEntry(appended, threshold, term_id, listing,
                                  CompletePostings(listing, nwrites))
  /\ mpc' = "err"
  /\ fault' = "write_error"
  /\ UNCHANGED << pureVars, indexVars, iterVars, producerVars, chunk_ch, sorterVars, merged_ch, mchunk, threshold,
                  received >>

\* line 152: try! returns the error from invert_index; the storage and the
\* receiver (with what is queued in it) are dropped
MergerReturnErr ==
  /\ mpc = "err"
  /\ mpc' = "done_err"
  /\ storage' = <<>>
  /\ appended' = <<>>
  /\ mchunk' = <<>>
  /\ merged_ch' = <<>>
  /\ UNCHANGED << pureVars, indexVars, iterVars, producerVars, chunk_ch, sorterVars, threshold, received, fault >>

\* lines 152, 156: the same failure seen from the other threads: the error
\* and the return of invert_index in one step (the storage is local to the
\* merger, so no other thread observes the state between the two)
MergerWriteFails ==
  /\ mpc = "write"
  /\ mpc' = "done_err"
  /\ fault' = "write_error"
  /\ storage' = <<>>
  /\ appended' = <<>>
  /\ mchunk' = <<>>
  /\ merged_ch' = <<>>
  /\ UNCHANGED << pureVars, indexVars, iterVars, producerVars, chunk_ch, sorterVars, threshold, received >>

\* the backing store panics inside a write; unwinding drops storage and receiver
MergerPanics ==
  /\ mpc = "write"
  /\ mpc' = "panicked"
  /\ fault' = "panic"
  /\ storage' = <<>>
  /\ appended' = <<>>
  /\ mchunk' = <<>>
  /\ merged_ch' = <<>>
  /\ UNCHANGED << pureVars, indexVars, iterVars, producerVars, chunk_ch, sorterVars, threshold, received >>

Producer ==
  \/ ProducerDocument
  \/ ProducerEndOfInput
  \/ ProducerSend
  \/ ProducerSendFails
  \/ ProducerJoinSorter
  \/ ProducerJoinMerger

Sorter(s) ==
  \/ SorterRecv(s)
  \/ SorterExit(s)
  \/ SorterLoad(s)
  \/ SorterSend(s)
  \/ SorterSendPanics(s)
  \/ SorterFetchAdd(s)

Merger ==
  \/ MergerRecv
  \/ MergerFinish
  \/ MergerWrite
  \/ MergerWriteFails
  \/ MergerPanics

PipeNext == Producer \/ (\E s \in Sorters : Sorter(s)) \/ Merger

Init == PipeInit
Next == PipeNext
Spec == Init /\ [][Next]_vars

(***************************************************************************)
(* A run in which no thread fails: no write error, no panic.  Every thread *)
(* that can take a step is scheduled eventually (a sorter spinning at      *)
(* lines 124-131 keeps loading the counter); the input iterator ends after *)
(* at most MaxDocs documents.                                              *)
(***************************************************************************)
ProducerRuns ==
  \/ ProducerDocument
  \/ ProducerEndOfInput
  \/ ProducerSend
  \/ ProducerJoinSorter
  \/ ProducerJoinMerger

SorterRuns(s) ==
  \/ SorterRecv(s)
  \/ SorterExit(s)
  \/ SorterLoad(s)
  \/ SorterSend(s)
  \/ SorterFetchAdd(s)

MergerRuns ==
  \/ MergerRecv
  \/ MergerFinish
  \/ MergerWrite

FairNext == ProducerRuns \/ (\E s \in Sorters : SorterRuns(s)) \/ MergerRuns

Fairness ==
  /\ WF_vars(ProducerRuns)
  /\ \A s \in Sorters : WF_vars(SorterRuns(s))
  /\ WF_vars(MergerRuns)

\* the runs without failures, and those of them with fair scheduling
SpecNoFault == Init /\ [][FairNext]_vars
SpecFair == SpecNoFault /\ Fairness


(***************************************************************************)
(* invert_index driven directly, as tests::basic_inverting,                *)
(* chunk_overflowing_inverting and overflowing_posting do: a thread sends  *)
(* grouped chunks into the channel and drops the sender.                   *)
(***************************************************************************)
MaxFeeds == 2

\* grouped chunks a caller may send: short and long listings, a posting
\* longer than a storage chunk, values that take two bytes, an empty chunk
FeedChoices ==
  { << << 0, << << 0, << 0 >> >>, << 1, << 1, 2 >> >> >> >> >>,
    << << 0, << << 2, << 0, 1, 2, 3, 4 >> >> >> >>,
       << 1, << << 2, << 3 >> >> >> >> >>,
    << << 0, << << 130, << 200 >> >> >> >>,
       << 1, << << 3, << 0 >> >>, << 130, << 1, 300 >> >> >> >> >>,
    << << 0, << << 5, << 7 >> >>, << 6, << 127, 128 >> >> >> >> >>,
    << >> }

\* the listing a sequence of grouped chunks holds for a term id
RECURSIVE ListingOf(_, _)
ListingOf(chunks, term_id) ==
  IF chunks = <<>> THEN <<>>
  ELSE LET c == Head(chunks)
           here == IF \E e \in 1 .. Len(c) : c[e][1] = term_id
                   THEN c[CHOOSE e \in 1 .. Len(c) : c[e][1] = term_id][2]
                   ELSE <<>>
       IN here \o ListingOf(Tail(chunks), term_id)

RECURSIVE AscendingFrom(_, _)
AscendingFrom(xs, i) ==
  \/ i >= Len(xs)
  \/ /\ xs[i] < xs[i + 1]
     /\ AscendingFrom(xs, i + 1)

\* what invert_index is fed: each term's doc ids ascend across the chunks,
\* and a term id new to the storage is the next free one
RECURSIVE TermsInOrder(_, _)
TermsInOrder(chunks, known) ==
  \/ chunks = <<>>
  \/ LET c == Head(chunks)
         new == { c[e][1] : e \in 1 .. Len(c) } \ (0 .. (known - 1))
     IN /\ new = known .. (known + Cardinality(new) - 1)
        /\ \A e, f \in 1 .. Len(c) : e < f => c[e][1] < c[f][1]
        /\ TermsInOrder(Tail(chunks), known + Cardinality(new))

FeedTerms == 0 .. 1

WellFormedFeed(chunks) ==
  /\ TermsInOrder(chunks, 0)
  /\ \A t \in FeedTerms :
       AscendingFrom([k \in 1 .. Len(ListingOf(chunks, t)) |-> ListingOf(chunks, t)[k][1]], 1)

Feeds ==
  { f \in UNION { [1 .. n -> FeedChoices] : n \in 0 .. MaxFeeds } : WellFormedFeed(f) }

InvertInit ==
  /\ ppc = "feed"
  /\ docs = <<>>
  /\ feed \in Feeds
  /\ document_count = 0
  /\ chunk_count = 0
  /\ buffer = <<>>
  /\ term_ids = << >>
  /\ join_index = 0
  /\ result = "none"
  /\ chunk_ch = [s \in Sorters |-> <<>>]
  /\ sorter = [s \in Sorters |-> [IdleSorter EXCEPT !.pc = "done"]]
  /\ sync = 0
  /\ merged_ch = <<>>
  /\ mpc = "recv"
  /\ mchunk = <<>>
  /\ threshold = 0
  /\ storage = <<>>
  /\ received = <<>>
  /\ appended = <<>>
  /\ fault = "none"
  /\ IndexIdle
  /\ IterIdle
  /\ PureIdle

\* sorted_tx.send(chunk).unwrap()
FeedSend ==
  /\ ppc = "feed"
  /\ feed # <<>>
  /\ ~MergerGone
  /\ Len(merged_ch) < MERGED_CHANNEL_CAP
  /\ merged_ch' = Append(merged_ch, << chunk_count, Head(feed) >>)
  /\ feed' = Tail(feed)
  /\ chunk_count' = chunk_count + 1
  /\ UNCHANGED << pureVars, indexVars, iterVars, ppc, docs, document_count, buffer, term_ids, join_index, result,
                  chunk_ch, sorterVars, mergerVars >>

\* drop(sorted_tx), or the sending thread ends when the merger is gone
FeedDrop ==
  /\ ppc = "feed"
  /\ feed = <<>> \/ MergerGone
  /\ ppc' = "join_inv"
  /\ UNCHANGED << pureVars, indexVars, iterVars, docs, feed, document_count, chunk_count, buffer, term_ids,
                  join_index, result, chunk_ch, sorterVars, merged_ch, mergerVars >>

InvertNext ==
  \/ FeedSend
  \/ FeedDrop
  \/ MergerRecv
  \/ MergerFinish
  \/ MergerWrite
  \/ MergerWriteError
  \/ MergerReturnErr
  \/ MergerPanics
  \/ ProducerJoinMerger

SpecInvert == InvertInit /\ [][InvertNext]_vars

(***************************************************************************)
(* Decoding a term's stored stream: doc-id deltas summed from 0, a         *)
(* position count, position deltas summed from 0 in each posting.          *)
(***************************************************************************)
RECURSIVE CumulativeSums(_, _)
CumulativeSums(deltas, base) ==
  IF deltas = <<>> THEN <<>>
  ELSE << base + Head(deltas) >> \o CumulativeSums(Tail(deltas), base + Head(deltas))

RECURSIVE DecodePostings(_, _)
DecodePostings(values, base_doc_id) ==
  IF Len(values) < 2 \/ Len(values) < 2 + values[2] THEN <<>>
  ELSE LET doc_id == base_doc_id + values[1]
           n == values[2]
       IN << << doc_id, CumulativeSums(SubSeq(values, 3, 2 + n), 0) >> >>
          \o DecodePostings(SubSeq(values, 3 + n, Len(values)), doc_id)

DecodeFromStorage(st, term_id) ==
  DecodePostings(VByteDecoder(StoredBytes(st, term_id)), 0)

(***************************************************************************)
(* The single-threaded Index (index/mod.rs).  An index is a record of its  *)
(* listings (a vector of <<TermId, Listing>> kept sorted by TermId), its   *)
(* vocabulary and its doc_count.  A Listing holds the postings flushed to  *)
(* the page store (stored) and those added since the last commit           *)
(* (pending); a posting is a DocId.                                        *)
(***************************************************************************)
NewIndex == [listings |-> <<>>, vocabulary |-> << >>, doc_count |-> 0]

NewListing == [stored |-> <<>>, pending |-> <<>>]

\* Vocabulary::get_or_add: the id of a known term, the next free id otherwise
GetOrAdd(vocabulary, term) ==
  IF term \in DOMAIN vocabulary THEN vocabulary
  ELSE [t \in (DOMAIN vocabulary) \cup {term} |->
          IF t = term THEN Cardinality(DOMAIN vocabulary) ELSE vocabulary[t]]

\* Listing::add, Listing::commit, Listing::posting_iter
ListingAdd(listing, postings) == [listing EXCEPT !.pending = @ \o postings]
ListingCommit(listing) == [stored |-> listing.stored \o listing.pending, pending |-> <<>>]
PostingIter(listing) == listing.stored

\* binary_search_by_key over the sorted listings: the index of the entry, or
\* the place to insert it
Found(listings, term_id) == \E i \in 1 .. Len(listings) : listings[i][1] = term_id
SearchIndex(listings, term_id) ==
  1 + Cardinality({ i \in 1 .. Len(listings) : listings[i][1] < term_id })

InsertAt(seq, i, x) == SubSeq(seq, 1, i - 1) \o << x >> \o SubSeq(seq, i, Len(seq))

\* lines 66-73 and 93-100: get or add the listing, then add the postings
AddToListing(listings, term_id, postings) ==
  LET index == SearchIndex(listings, term_id)
      ls == IF Found(listings, term_id) THEN listings
            ELSE InsertAt(listings, index, << term_id, NewListing >>)
  IN [ls EXCEPT ![index] = << term_id, ListingAdd(@[2], postings) >>]

\* Vec::dedup: consecutive equal elements collapse into the first
RECURSIVE Dedup(_)
Dedup(buff) ==
  IF Len(buff) <= 1 THEN buff
  ELSE IF buff[1] = buff[2] THEN Dedup(Tail(buff))
       ELSE << buff[1] >> \o Dedup(Tail(buff))

RECURSIVE InsertSorted(_, _)
InsertSorted(sorted, x) ==
  IF sorted = <<>> THEN << x >>
  ELSE IF Last(sorted) <= x THEN Append(sorted, x)
  ELSE Append(InsertSorted(SubSeq(sorted, 1, Len(sorted) - 1), x), Last(sorted))

RECURSIVE SortFrom(_, _)
SortFrom(buff, sorted) ==
  IF buff = <<>> THEN sorted ELSE SortFrom(Tail(buff), InsertSorted(sorted, Head(buff)))

\* lines 84-88: the term ids of a document, and the vocabulary after it
RECURSIVE TermIdsOf(_, _)
TermIdsOf(document, vocabulary) ==
  IF document = <<>> THEN [buff |-> <<>>, vocabulary |-> vocabulary]
  ELSE LET voc == GetOrAdd(vocabulary, Head(document))
           rest == TermIdsOf(Tail(document), voc)
       IN [buff |-> << voc[Head(document)] >> \o rest.buff, vocabulary |-> rest.vocabulary]

SortedTermIdsKeepDuplicates(buff) == SortFrom(buff, <<>>)

\* lines 89-90: buff.sort(); buff.dedup()
SortedTermIds(buff) == Dedup(SortFrom(buff, <<>>))

RECURSIVE AddEach(_, _, _)
AddEach(listings, buff, doc_id) ==
  IF buff = <<>> THEN listings
  ELSE AddEach(AddToListing(listings, Head(buff), << doc_id >>), Tail(buff), doc_id)

\* Index::index_document, lines 79-103
IndexDocument(index, document) ==
  LET doc_id == index.doc_count
      t == TermIdsOf(document, index.vocabulary)
  IN [listings |-> AddEach(index.listings, SortedTermIds(t.buff), doc_id),
      vocabulary |-> t.vocabulary,
      doc_count |-> index.doc_count + 1]

\* lines 82 and 102: the DocId index_document returns
ReturnedDocId(index) == index.doc_count

CommitResettingCount(index) ==
  [listings |-> [i \in 1 .. Len(index.listings) |->
                   << index.listings[i][1], ListingCommit(index.listings[i][2]) >>],
   vocabulary |-> index.vocabulary,
   doc_count |-> 0]

\* a commit that leaves alone every listing committed before
CommitFrozen(index) ==
  [index EXCEPT !.listings =
     [i \in 1 .. Len(@) |->
        IF @[i][2].stored = <<>> THEN << @[i][1], ListingCommit(@[i][2]) >> ELSE @[i]]]

\* Index::commit, lines 105-112
Commit(index) ==
  [index EXCEPT !.listings = [i \in 1 .. Len(@) |-> << @[i][1], ListingCommit(@[i][2]) >>]]

\* lines 40-47: the (term_id, doc_id) pairs of a collection
RECURSIVE PairsOf(_, _, _)
PairsOf(collection, vocabulary, doc_count) ==
  IF collection = <<>>
  THEN [buff |-> <<>>, vocabulary |-> vocabulary, doc_count |-> doc_count]
  ELSE LET t == TermIdsOf(Head(collection), vocabulary)
           rest == PairsOf(Tail(collection), t.vocabulary, doc_count + 1)
       IN [buff |-> [k \in 1 .. Len(t.buff) |-> << t.buff[k], doc_count >>] \o rest.buff,
           vocabulary |-> rest.vocabulary,
           doc_count |-> rest.doc_count]

\* lines 50-64: group the sorted pairs by term id
RECURSIVE GroupPairsFrom(_, _, _, _, _)
GroupPairsFrom(buff, i, grouped_buff, last_tid, term_counter) ==
  IF i > Len(buff) THEN grouped_buff
  ELSE LET term_id == buff[i][1]
           doc_id  == buff[i][2]
       IN IF last_tid < term_id \/ i = 1
          THEN GroupPairsFrom(buff, i + 1, Append(grouped_buff, << term_id, << doc_id >> >>),
                              term_id, term_counter + 1)
          ELSE GroupPairsFrom(buff, i + 1,
                              [grouped_buff EXCEPT ![term_counter] = << @[1], Append(@[2], doc_id) >>],
                              last_tid, term_counter)

RECURSIVE AddGroups(_, _)
AddGroups(listings, grouped_buff) ==
  IF grouped_buff = <<>> THEN listings
  ELSE AddGroups(AddToListing(listings, Head(grouped_buff)[1], Head(grouped_buff)[2]),
                 Tail(grouped_buff))

\* index_collection without line 49
IndexCollectionNoDedup(index, collection) ==
  LET p == PairsOf(collection, index.vocabulary, index.doc_count)
      grouped_buff == GroupPairsFrom(SortByKey(p.buff), 1, <<>>, 0, 0)
  IN Commit([listings |-> AddGroups(index.listings, grouped_buff),
             vocabulary |-> p.vocabulary,
             doc_count |-> p.doc_count])

\* Index::index_collection, lines 35-77
IndexCollection(index, collection) ==
  LET p == PairsOf(collection, index.vocabulary, index.doc_count)
      buff == Dedup(SortByKey(p.buff))
      grouped_buff == GroupPairsFrom(buff, 1, <<>>, 0, 0)
  IN Commit([listings |-> AddGroups(index.listings, grouped_buff),
             vocabulary |-> p.vocabulary,
             doc_count |-> p.doc_count])

\* a query_atom that looks a missing term up as TermId 0
QueryAtomDefaultId(index, atom) ==
  LET term_id == IF atom \in DOMAIN index.vocabulary THEN index.vocabulary[atom] ELSE 0
  IN IF Found(index.listings, term_id)
     THEN PostingIter(index.listings[SearchIndex(index.listings, term_id)][2])
     ELSE <<>>

\* Index::query_atom, lines 114-121
QueryAtom(index, atom) ==
  IF atom \in DOMAIN index.vocabulary /\ Found(index.listings, index.vocabulary[atom])
  THEN PostingIter(index.listings[SearchIndex(index.listings, index.vocabulary[atom])][2])
  ELSE <<>>

(***************************************************************************)
(* The Index in use: documents and collections are indexed, the index is   *)
(* committed and queried, in any order.                                    *)
(***************************************************************************)
\* the number of documents given to one Index
MaxIndexed == 4

IndexDocChoices == DocChoices \cup { << >>, <<"c", "a">> }
CollectionChoices ==
  { << >> } \cup { << d >> : d \in IndexDocChoices }
           \cup { << d, e >> : d \in IndexDocChoices, e \in DocChoices }
AtomChoices == {"a", "b", "c", "z"}

\* no pipeline is running while the Index or an iterator is exercised
NoPipeline ==
  /\ ppc = "none"
  /\ docs = <<>>
  /\ feed = <<>>
  /\ document_count = 0
  /\ chunk_count = 0
  /\ buffer = <<>>
  /\ term_ids = << >>
  /\ join_index = 0
  /\ result = "none"
  /\ chunk_ch = [s \in Sorters |-> <<>>]
  /\ sorter = [s \in Sorters |-> [IdleSorter EXCEPT !.pc = "done"]]
  /\ sync = 0
  /\ merged_ch = <<>>
  /\ mpc = "done_ok"
  /\ mchunk = <<>>
  /\ threshold = 0
  /\ storage = <<>>
  /\ received = <<>>
  /\ appended = <<>>
  /\ fault = "none"

IndexInit ==
  /\ NoPipeline
  /\ idx = NewIndex
  /\ answer = NoAnswer
  /\ indexed = <<>>
  /\ commits = <<>>
  /\ IterIdle
  /\ PureIdle

\* the record of a commit made when n documents had been indexed
CommitRecorded(points, n) ==
  IF points # <<>> /\ Last(points) = n THEN points
  ELSE IF Len(points) < 2 THEN Append(points, n)
  ELSE << points[2], n >>

CallIndexDocument ==
  /\ Len(indexed) < MaxIndexed
  /\ \E document \in IndexDocChoices :
       /\ idx' = IndexDocument(idx, document)
       /\ indexed' = Append(indexed, document)
  /\ answer' = NoAnswer
  /\ returned' = [done |-> TRUE, value |-> ReturnedDocId(idx)]
  /\ UNCHANGED << args, walk, hierarchy, commits, pipeVars, iterVars >>

CallIndexCollection ==
  /\ \E collection \in CollectionChoices :
       /\ Len(indexed) + Len(collection) <= MaxIndexed
       /\ idx' = IndexCollection(idx, collection)
       /\ indexed' = indexed \o collection
       /\ commits' = CommitRecorded(commits, Len(indexed) + Len(collection))
  /\ answer' = NoAnswer
  /\ UNCHANGED << pureVars, pipeVars, iterVars >>

CallCommit ==
  /\ idx' = Commit(idx)
  /\ commits' = CommitRecorded(commits, Len(indexed))
  /\ answer' = NoAnswer
  /\ UNCHANGED << pureVars, indexed, pipeVars, iterVars >>

CallQueryAtom ==
  /\ \E atom \in AtomChoices :
       answer' = [asked |-> TRUE, atom |-> atom, postings |-> QueryAtom(idx, atom)]
  /\ UNCHANGED << pureVars, idx, indexed, commits, pipeVars, iterVars >>

IndexNext ==
  \/ CallIndexDocument
  \/ CallIndexCollection
  \/ CallCommit
  \/ CallQueryAtom

SpecIndex == IndexInit /\ [][IndexNext]_vars

\* what a Listing holds for its postings: a posting given to Listing::add is
\* a DocId alone, stored as its delta to the previous DocId
RECURSIVE DocIdDeltas(_, _)
DocIdDeltas(postings, base_doc_id) ==
  IF postings = <<>> THEN <<>>
  ELSE << DocDelta(Head(postings), base_doc_id) >> \o DocIdDeltas(Tail(postings), Head(postings))

ListingBytes(listing) == EncodeAll(DocIdDeltas(listing.stored, 0))

\* the stored content of a term of the Index (nothing for an unknown term)
IndexStoredBytes(index, term) ==
  IF term \in DOMAIN index.vocabulary /\ Found(index.listings, index.vocabulary[term])
  THEN ListingBytes(index.listings[SearchIndex(index.listings, index.vocabulary[term])][2])
  ELSE <<>>

(***************************************************************************)
(* Query iterators.  A posting is <<DocId, positions>>; None is the absent *)
(* Option.  An operand of an n-ary iterator is a leaf: the postings of one *)
(* term, the number of them consumed so far (pos) and its estimate_length. *)
(* Every operation returns the value it yields and the operand after it.   *)
(***************************************************************************)
None == << >>

Leaf(postings, estimate) == [postings |-> postings, pos |-> 0, estimate |-> estimate]

OperandPeek(op) ==
  IF op.pos < Len(op.postings) THEN op.postings[op.pos + 1] ELSE None

OperandNext(op) ==
  [value |-> OperandPeek(op),
   op |-> IF op.pos < Len(op.postings) THEN [op EXCEPT !.pos = @ + 1] ELSE op]

\* advance past any posting with a DocId below the target's
RECURSIVE OperandSeek(_, _)
OperandSeek(op, target) ==
  IF op.pos < Len(op.postings) /\ op.postings[op.pos + 1][1] < target[1]
  THEN OperandSeek([op EXCEPT !.pos = @ + 1], target)
  ELSE op

OperandNextSeek(op, target) == OperandNext(OperandSeek(op, target))

OperandPeekSeek(op, target) ==
  [value |-> OperandPeek(OperandSeek(op, target)), op |-> OperandSeek(op, target)]

\* sort_by_key(|op| op.estimate_length()), a stable sort
\* an unstable sort by estimate: an operand goes before those of equal estimate
RECURSIVE InsertByEstimateUnstable(_, _)
InsertByEstimateUnstable(sorted, op) ==
  IF sorted = <<>> THEN << op >>
  ELSE IF Last(sorted).estimate < op.estimate THEN Append(sorted, op)
  ELSE Append(InsertByEstimateUnstable(SubSeq(sorted, 1, Len(sorted) - 1), op), Last(sorted))

\* lines 103 and 115: sort_by_key(|op| op.estimate_length()), a stable sort
RECURSIVE InsertByEstimate(_, _)
InsertByEstimate(sorted, op) ==
  IF sorted = <<>> THEN << op >>
  ELSE IF Last(sorted).estimate <= op.estimate THEN Append(sorted, op)
  ELSE Append(InsertByEstimate(SubSeq(sorted, 1, Len(sorted) - 1), op), Last(sorted))

RECURSIVE SortByEstimateFrom(_, _)
SortByEstimateFrom(operands, sorted) ==
  IF operands = <<>> THEN sorted
  ELSE SortByEstimateFrom(Tail(operands), InsertByEstimate(sorted, Head(operands)))

\* NAryQueryIterator::new, lines 108-117
New(operator, operands) ==
  [pos_operator |-> "None",
   bool_operator |-> operator,
   operands |-> SortByEstimateFrom(operands, <<>>),
   peeked_value |-> None]

\* NAryQueryIterator::new_positional, lines 96-105
NewPositional(operator, operands) ==
  [pos_operator |-> operator,
   bool_operator |-> "None",
   operands |-> SortByEstimateFrom(operands, <<>>),
   peeked_value |-> None]

\* NAryQueryIterator::estimate_length, lines 119-132
NaryEstimateLength(it) ==
  IF it.bool_operator = "And" THEN it.operands[1].estimate
  ELSE IF it.bool_operator = "Or" THEN it.operands[Len(it.operands)].estimate
  ELSE it.operands[1].estimate

FocusNeverPassed(v, focus) == FALSE

\* line 239: the operand has skipped past the focus
FocusPassed(v, focus) == v[1] > focus[1]

\* next_and, lines 230-247: the pass over the operands from index i (counted
\* from 0) with the current focus, set by operand last_iter
RECURSIVE AndLoop(_, _, _, _)
AndLoop(operands, focus, last_iter, i) ==
  IF i >= Len(operands) THEN [value |-> focus, operands |-> operands]
  ELSE IF last_iter = i THEN AndLoop(operands, focus, last_iter, i + 1)
  ELSE LET r == OperandNextSeek(operands[i + 1], focus)
           ops == [operands EXCEPT ![i + 1] = r.op]
       IN IF r.value = None THEN [value |-> None, operands |-> ops]
          ELSE IF FocusPassed(r.value, focus) THEN AndLoop(ops, r.value, i, 0)
          ELSE AndLoop(ops, focus, last_iter, i + 1)

\* NAryQueryIterator::next_and, lines 227-249
NextAnd(operands) ==
  LET first == OperandNext(operands[1])
      ops == [operands EXCEPT ![1] = first.op]
  IN IF first.value = None THEN [value |-> None, operands |-> ops]
     ELSE AndLoop(ops, first.value, 0, 0)

YieldsMinOnlyFirst(operands, i, min) ==
  i = 0 /\ OperandPeek(operands[1]) # None /\ OperandPeek(operands[1])[1] = min

\* lines 214-216: operand i (counted from 0) currently yields the minimum
YieldsMin(operands, i, min) ==
  OperandPeek(operands[i + 1]) # None /\ OperandPeek(operands[i + 1])[1] = min

\* next_or, lines 213-220
RECURSIVE OrLoop(_, _, _, _)
OrLoop(operands, min, tmp, i) ==
  IF i >= Len(operands) THEN [value |-> tmp, operands |-> operands]
  ELSE IF YieldsMin(operands, i, min)
       THEN LET r == OperandNext(operands[i + 1])
            IN OrLoop([operands EXCEPT ![i + 1] = r.op], min, r.value, i + 1)
       ELSE OrLoop(operands, min, tmp, i + 1)

\* lines 199-204: the smallest DocId the operands currently yield
PeekedDocIds(operands) ==
  { OperandPeek(operands[k])[1] : k \in { j \in 1 .. Len(operands) : OperandPeek(operands[j]) # None } }

Min(S) == CHOOSE m \in S : \A x \in S : m <= x

\* NAryQueryIterator::next_or, lines 196-225
NextOr(operands) ==
  IF PeekedDocIds(operands) # {}
  THEN OrLoop(operands, Min(PeekedDocIds(operands)), None, 0)
  ELSE [value |-> None, operands |-> operands]

(***************************************************************************)
(* positional_intersect, lines 253-314: the walk over the table of         *)
(* lhs[i] - rhs[j] with the pointers counted from 0, bounds = <<lo, hi>>;  *)
(* acc is the result vector so far.                                        *)
(***************************************************************************)
DownwardsNone(lhs, rval, bounds, d, acc) == acc

\* lines 285-289: check "downwards"
RECURSIVE Downwards(_, _, _, _, _)
Downwards(lhs, rval, bounds, d, acc) ==
  IF d < Len(lhs) /\ lhs[d + 1] - rval <= bounds[2]
  THEN Downwards(lhs, rval, bounds, d + 1, Append(acc, << lhs[d + 1], rval >>))
  ELSE acc

\* lines 291-296: check "right"
RECURSIVE Rightwards(_, _, _, _, _)
Rightwards(lval, rhs, bounds, r, acc) ==
  IF r < Len(rhs) /\ lval - rhs[r + 1] >= bounds[1]
  THEN Rightwards(lval, rhs, bounds, r + 1, Append(acc, << lval, rhs[r + 1] >>))
  ELSE acc

AdvanceBothNot(lhs_ptr, rhs_ptr) == << lhs_ptr + 1, rhs_ptr >>

\* lines 298-299: after a match both pointers advance
AdvanceBoth(lhs_ptr, rhs_ptr) == << lhs_ptr + 1, rhs_ptr + 1 >>

\* a loop that never advances the lhs pointer on its own
AdvanceOnlyRhs(diff, bounds, lhs_ptr, rhs_ptr) ==
  << lhs_ptr, IF diff >= bounds[2] THEN rhs_ptr + 1 ELSE rhs_ptr >>

\* lines 303-308: no match; both tests are made, one after the other
Advance(diff, bounds, lhs_ptr, rhs_ptr) ==
  << IF diff <= bounds[1] THEN lhs_ptr + 1 ELSE lhs_ptr,
     IF diff >= bounds[2] THEN rhs_ptr + 1 ELSE rhs_ptr >>

RECURSIVE IntersectFrom(_, _, _, _, _, _)
IntersectFrom(lhs, rhs, bounds, lhs_ptr, rhs_ptr, acc) ==
  IF ~(lhs_ptr < Len(lhs) /\ rhs_ptr < Len(rhs)) THEN acc
  ELSE LET lval == lhs[lhs_ptr + 1]
           rval == rhs[rhs_ptr + 1]
           diff == lval - rval
       IN IF diff >= bounds[1] /\ diff <= bounds[2]
          THEN LET pushed == Append(acc, << lval, rval >>)
                   down == Downwards(lhs, rval, bounds, lhs_ptr + 1, pushed)
                   right == Rightwards(lval, rhs, bounds, rhs_ptr + 1, down)
                   ptrs == AdvanceBoth(lhs_ptr, rhs_ptr)
               IN IntersectFrom(lhs, rhs, bounds, ptrs[1], ptrs[2], right)
          ELSE LET ptrs == Advance(diff, bounds, lhs_ptr, rhs_ptr)
               IN IntersectFrom(lhs, rhs, bounds, ptrs[1], ptrs[2], acc)

PositionalIntersect(lhs, rhs, bounds) == IntersectFrom(lhs, rhs, bounds, 0, 0, <<>>)

\* line 282: the loop condition
InLoop(lhs, rhs, w) == w.lhs_ptr < Len(lhs) /\ w.rhs_ptr < Len(rhs)

\* lines 283-309: one iteration of the loop on the locals w
Iteration(lhs, rhs, bounds, w) ==
  LET lval == lhs[w.lhs_ptr + 1]
      rval == rhs[w.rhs_ptr + 1]
      diff == lval - rval
      matched == diff >= bounds[1] /\ diff <= bounds[2]
      pushed == Append(w.result, << lval, rval >>)
      down == Downwards(lhs, rval, bounds, w.lhs_ptr + 1, pushed)
      right == Rightwards(lval, rhs, bounds, w.rhs_ptr + 1, down)
      ptrs == IF matched THEN AdvanceBoth(w.lhs_ptr, w.rhs_ptr)
              ELSE Advance(diff, bounds, w.lhs_ptr, w.rhs_ptr)
  IN [lhs_ptr |-> ptrs[1], rhs_ptr |-> ptrs[2],
      result |-> IF matched THEN right ELSE w.result,
      iterations |-> w.iterations + 1]

\* lines 165-169: the rhs positions of the pairs, pos.1
RhsPositions(pairs) == [k \in 1 .. Len(pairs) |-> pairs[k][2]]

PositionOffsetReversed(last_positions_iter, relative_position) ==
  relative_position - last_positions_iter

\* line 164: last_positions_iter - input.relative_position()
PositionOffset(last_positions_iter, relative_position) ==
  last_positions_iter - relative_position

(***************************************************************************)
(* next_inorder, lines 134-194.  InorderLoop is the state of the two       *)
(* nested loops at operand i (counted from 0): a recursion with the same i *)
(* is 'continue term_documents', with i + 1 'break term_documents', with 0 *)
(* 'continue possible_documents'.                                          *)
(***************************************************************************)
RECURSIVE InorderLoop(_, _, _, _, _, _)
InorderLoop(operands, focus, focus_positions, last_doc_iter, last_positions_iter, i) ==
  IF i >= Len(operands) THEN [value |-> focus, operands |-> operands]
  ELSE IF last_doc_iter = i
  THEN InorderLoop(operands, focus, focus_positions, last_doc_iter, last_positions_iter, i + 1)
  ELSE
    LET input == operands[i + 1]
        r == OperandNext(input)
        v == r.value
        ops == [operands EXCEPT ![i + 1] = r.op]
    IN IF v = None THEN [value |-> None, operands |-> ops]
       ELSE IF focus = None
       THEN InorderLoop(ops, v, v[2], i, input.relative_position, i + 1)
       ELSE IF v[1] < focus[1]
       THEN InorderLoop(ops, focus, focus_positions, last_doc_iter, last_positions_iter, i)
       ELSE IF v[1] = focus[1]
       THEN LET position_offset == PositionOffset(last_positions_iter, input.relative_position)
                positions == RhsPositions(PositionalIntersect(focus_positions, v[2],
                                            << position_offset, position_offset >>))
            IN IF positions = <<>>
               THEN LET r2 == OperandNext(r.op)
                        ops2 == [operands EXCEPT ![i + 1] = r2.op]
                    IN IF r2.value = None THEN [value |-> None, operands |-> ops2]
                       ELSE InorderLoop(ops2, r2.value, r2.value[2], i,
                                        input.relative_position, 0)
               ELSE InorderLoop(ops, focus, positions, last_doc_iter,
                                input.relative_position, i + 1)
       ELSE InorderLoop(ops, v, v[2], i, input.relative_position, 0)

\* NAryQueryIterator::next_inorder, lines 134-194
NextInorder(operands) ==
  InorderLoop(operands, None, <<>>, Len(operands) + 1, Len(operands) + 1, 0)

\* lines 25-36 and 43-53: the match on bool_operator and pos_operator
NextByOperator(it) ==
  IF it.bool_operator = "And" THEN NextAnd(it.operands)
  ELSE IF it.bool_operator = "Or" THEN NextOr(it.operands)
  ELSE NextInorder(it.operands)

\* NAryQueryIterator::next, lines 21-38; peeked_value is None when nothing is
\* cached and << v >> when the Option v is
IterNext(it) ==
  IF it.peeked_value # None
  THEN [value |-> it.peeked_value[1], it |-> [it EXCEPT !.peeked_value = None]]
  ELSE LET r == NextByOperator(it)
       IN [value |-> r.value, it |-> [it EXCEPT !.operands = r.operands]]

IterPeekUncached(it) ==
  [value |-> NextByOperator(it).value,
   it |-> [it EXCEPT !.operands = NextByOperator(it).operands]]

\* NAryQueryIterator::peek, lines 40-58
IterPeek(it) ==
  IF it.peeked_value = None
  THEN LET r == NextByOperator(it)
       IN [value |-> r.value,
           it |-> [it EXCEPT !.operands = r.operands, !.peeked_value = << r.value >>]]
  ELSE [value |-> it.peeked_value[1], it |-> it]

\* lines 79-81: op.peek_seek(target) on every operand
SeekOperands(operands, target) ==
  [k \in 1 .. Len(operands) |-> OperandPeekSeek(operands[k], target).op]

\* NAryQueryIterator::next_seek, lines 72-84
IterNextSeek(it, target) ==
  IterNext([it EXCEPT !.peeked_value = None, !.operands = SeekOperands(@, target)])

\* NAryQueryIterator::peek_seek, lines 86-92: with nothing cached, next_seek
\* is called while peeked_value is mutably borrowed and borrows it again,
\* which panics (RefCell); with a value cached, that value is returned
IterPeekSeek(it, target) ==
  IF it.peeked_value = None
  THEN [value |-> None, it |-> it, panicked |-> TRUE]
  ELSE [value |-> it.peeked_value[1], it |-> it, panicked |-> FALSE]

(***************************************************************************)
(* An n-ary iterator in use: built over up to MaxOperands leaves whose     *)
(* postings are any strictly ascending DocIds up to MaxDocId, then drained *)
(* by repeated next().  The operands' estimate_length is their exact       *)
(* length, which new() sorts them by, or for all of them the trivial upper *)
(* bound, which leaves them in the order given, whatever their lengths.    *)
(***************************************************************************)
MaxOperands == 3
MaxDocId == 2

RECURSIVE AscendingOf(_)
AscendingOf(S) ==
  IF S = {} THEN <<>> ELSE << Min(S) >> \o AscendingOf(S \ {Min(S)})

PostingsOf(doc_ids) == [k \in 1 .. Len(doc_ids) |-> << doc_ids[k], << 0 >> >>]

PostingLists == { PostingsOf(AscendingOf(S)) : S \in SUBSET (0 .. MaxDocId) }

EstimateLength(postings, exact) == IF exact THEN Len(postings) ELSE MaxDocId + 1

IterInit ==
  /\ NoPipeline
  /\ IndexIdle
  /\ drained = <<>>
  /\ calls = <<>>
  /\ PureIdle
  /\ \E operator \in {"And", "Or"}, n \in 1 .. MaxOperands :
       \E ps \in [1 .. n -> PostingLists], exact \in BOOLEAN :
         nary = New(operator, [k \in 1 .. n |-> Leaf(ps[k], EstimateLength(ps[k], exact))])

\* a call of the iterator: the method, its target (None without one), the
\* Option returned and whether the call panicked instead of returning
Call(method, target, value, panicked) ==
  [method |-> method, target |-> target, value |-> value, panicked |-> panicked]

Panicked == IF calls = <<>> THEN FALSE ELSE Last(calls).panicked

\* one call of next(); draining stops at the first absent result
CallNext ==
  /\ IF drained = <<>> THEN TRUE ELSE Last(drained) # None
  /\ ~Panicked
  /\ nary' = IterNext(nary).it
  /\ drained' = Append(drained, IterNext(nary).value)
  /\ calls' = Append(calls, Call("next", None, IterNext(nary).value, FALSE))
  /\ UNCHANGED << pureVars, pipeVars, indexVars >>

SpecIter == IterInit /\ [][CallNext]_vars

(***************************************************************************)
(* An InOrder iterator in use: the operands are the leaves of the terms of *)
(* a phrase over a small corpus, operand k of the phrase with              *)
(* relative_position k (counted from 0); a leaf holds, for every document  *)
(* containing its term, the DocId and the ascending positions of the term. *)
(***************************************************************************)
PhraseDocChoices ==
  { <<"a", "b">>, <<"b", "a">>, <<"a", "a", "b">>, <<"a", "c", "b">>, <<"c", "b">>,
    <<"a", "b", "a", "b">> }
PhraseTerms == {"a", "b"}

RECURSIVE PositionsOf(_, _, _)
PositionsOf(document, term, position) ==
  IF document = <<>> THEN <<>>
  ELSE (IF Head(document) = term THEN << position >> ELSE <<>>)
       \o PositionsOf(Tail(document), term, position + 1)

RECURSIVE TermPostings(_, _, _)
TermPostings(corpus, term, doc_id) ==
  IF corpus = <<>> THEN <<>>
  ELSE (IF PositionsOf(Head(corpus), term, 0) # <<>>
        THEN << << doc_id, PositionsOf(Head(corpus), term, 0) >> >> ELSE <<>>)
       \o TermPostings(Tail(corpus), term, doc_id + 1)

TermLeaf(postings, estimate, relative_position) ==
  [postings |-> postings, pos |-> 0, estimate |-> estimate,
   relative_position |-> relative_position]

InOrderInit ==
  /\ NoPipeline
  /\ IndexIdle
  /\ drained = <<>>
  /\ calls = <<>>
  /\ PureIdle
  /\ \E ndocs \in 0 .. MaxDocId + 1, n \in 1 .. MaxOperands :
       \E corpus \in [1 .. ndocs -> PhraseDocChoices], phrase \in [1 .. n -> PhraseTerms],
          exact \in BOOLEAN :
         nary = NewPositional("InOrder",
                  [k \in 1 .. n |->
                     TermLeaf(TermPostings(corpus, phrase[k], 0),
                              EstimateLength(TermPostings(corpus, phrase[k], 0), exact),
                              k - 1)])

SpecInOrder == InOrderInit /\ [][CallNext]_vars

(***************************************************************************)
(* An iterator used through all four methods: next, peek, next_seek and    *)
(* peek_seek in any order, over And and Or of one or two leaves and over   *)
(* the phrase "a b" in three documents.  MaxCalls bounds the calls other   *)
(* than the next() calls that drain it.                                    *)
(***************************************************************************)
MaxCalls == 4

SeekPostingLists ==
  { PostingsOf(<<0, 1, 3>>), PostingsOf(<<1, 2, 3>>), PostingsOf(<<1, 3>>), PostingsOf(<<2>>) }
SeekCorpusDocs == { <<"a", "b">>, <<"b", "a">>, <<"a", "c", "b">> }
SeekTargets == { << 1, << 0 >> >>, << 3, << 0 >> >> }

SeekInit ==
  /\ NoPipeline
  /\ IndexIdle
  /\ drained = <<>>
  /\ calls = <<>>
  /\ PureIdle
  /\ \/ \E operator \in {"And", "Or"}, n \in 1 .. 2 :
          \E ps \in [1 .. n -> SeekPostingLists] :
            nary = New(operator, [k \in 1 .. n |-> Leaf(ps[k], Len(ps[k]))])
     \/ \E corpus \in [1 .. 3 -> SeekCorpusDocs] :
          nary = NewPositional("InOrder",
                   << TermLeaf(TermPostings(corpus, "a", 0), Len(TermPostings(corpus, "a", 0)), 0),
                      TermLeaf(TermPostings(corpus, "b", 0), Len(TermPostings(corpus, "b", 0)), 1) >>)

CallPeek ==
  /\ ~Panicked
  /\ Len(calls) < MaxCalls
  /\ nary' = IterPeek(nary).it
  /\ calls' = Append(calls, Call("peek", None, IterPeek(nary).value, FALSE))
  /\ UNCHANGED << pureVars, drained, pipeVars, indexVars >>

CallNextSeek ==
  /\ ~Panicked
  /\ Len(calls) < MaxCalls
  /\ \E target \in SeekTargets :
       /\ nary' = IterNextSeek(nary, target).it
       /\ drained' = Append(drained, IterNextSeek(nary, target).value)
       /\ calls' = Append(calls, Call("next_seek", target, IterNextSeek(nary, target).value, FALSE))
  /\ UNCHANGED << pureVars, pipeVars, indexVars >>

CallPeekSeek ==
  /\ ~Panicked
  /\ Len(calls) < MaxCalls
  /\ \E target \in SeekTargets :
       /\ nary' = IterPeekSeek(nary, target).it
       /\ calls' = Append(calls, Call("peek_seek", target, IterPeekSeek(nary, target).value,
                                      IterPeekSeek(nary, target).panicked))
  /\ UNCHANGED << pureVars, drained, pipeVars, indexVars >>

PeekNext ==
  \/ CallNext
  \/ CallPeek

SpecPeek == SeekInit /\ [][PeekNext]_vars

SeekNext ==
  \/ CallNext
  \/ CallPeek
  \/ CallNextSeek
  \/ CallPeekSeek

SpecSeek == SeekInit /\ [][SeekNext]_vars

(***************************************************************************)
(* positional_intersect called on its own: two ascending position lists    *)
(* (equal positions allowed) of up to MaxLen positions up to MaxPosition,  *)
(* and bounds lo <= hi; and the call of the table in its comment.          *)
(***************************************************************************)
MaxLen == 3
MaxPosition == 3

RECURSIVE NonDecreasing(_)
NonDecreasing(seq) ==
  IF Len(seq) <= 1 THEN TRUE ELSE seq[1] <= seq[2] /\ NonDecreasing(Tail(seq))

PositionLists ==
  { seq \in UNION { [1 .. n -> 0 .. MaxPosition] : n \in 0 .. MaxLen } : NonDecreasing(seq) }

BoundChoices == { << lo, hi >> : lo \in -2 .. 2, hi \in -2 .. 2 } \ { b \in (-2 .. 2) \X (-2 .. 2) : b[1] > b[2] }

TableCall == << <<1, 3, 4, 8>>, <<0, 4, 5, 7>>, <<-1, 1>> >>

IntersectInit ==
  /\ NoPipeline
  /\ IndexIdle
  /\ IterIdle
  /\ returned = NotReturned
  /\ walk = NoWalk
  /\ hierarchy = NewHierarchy
  /\ \/ \E lhs \in PositionLists, rhs \in PositionLists, bounds \in BoundChoices :
          args = << lhs, rhs, bounds >>
     \/ args = TableCall

CallPositionalIntersect ==
  /\ ~returned.done
  /\ returned' = [done |-> TRUE, value |-> PositionalIntersect(args[1], args[2], args[3])]
  /\ UNCHANGED << args, walk, hierarchy, pipeVars, indexVars, iterVars >>

SpecIntersect == IntersectInit /\ [][CallPositionalIntersect]_vars

(***************************************************************************)
(* positional_intersect iteration by iteration, on any two lists of up to  *)
(* WalkMaxLen positions up to WalkMaxPosition, sorted or not, and any      *)
(* bounds, lo > hi included.                                               *)
(***************************************************************************)
WalkMaxLen == 2
WalkMaxPosition == 2

WalkLists == UNION { [1 .. n -> 0 .. WalkMaxPosition] : n \in 0 .. WalkMaxLen }
WalkBounds == (-1 .. 1) \X (-1 .. 1)

WalkInit ==
  /\ NoPipeline
  /\ IndexIdle
  /\ IterIdle
  /\ returned = NotReturned
  /\ walk = NoWalk
  /\ hierarchy = NewHierarchy
  /\ \E lhs \in WalkLists, rhs \in WalkLists, bounds \in WalkBounds :
       args = << lhs, rhs, bounds >>

\* one iteration; the count of iterations stops one past the most the loop
\* can make if every iteration advances a pointer
WalkIteration ==
  /\ ~returned.done
  /\ InLoop(args[1], args[2], walk)
  /\ walk.iterations <= Len(args[1]) + Len(args[2])
  /\ walk' = Iteration(args[1], args[2], args[3], walk)
  /\ UNCHANGED << args, returned, hierarchy, pipeVars, indexVars, iterVars >>

\* line 313: the loop has ended, result is returned
WalkReturn ==
  /\ ~returned.done
  /\ ~InLoop(args[1], args[2], walk)
  /\ returned' = [done |-> TRUE, value |-> walk.result]
  /\ UNCHANGED << args, walk, hierarchy, pipeVars, indexVars, iterVars >>

WalkNext == WalkIteration \/ WalkReturn

SpecWalk == WalkInit /\ [][WalkNext]_vars

(***************************************************************************)
(* Hierarchy, field/hierarchy.rs: a map from each element to the vector of *)
(* its children and the vector of the root terms, built by up to MaxAdds   *)
(* calls of add_element.  args is the list of the calls made.              *)
(***************************************************************************)
MaxAdds == 3
HierarchyTerms == {"a", "b", "c"}
ParentChoices == {None} \cup { << t >> : t \in HierarchyTerms }

\* line 17: self.0.insert(term.clone(), vec![])
InsertNode(nodes, term) ==
  [t \in (DOMAIN nodes) \cup {term} |-> IF t = term THEN <<>> ELSE nodes[t]]

\* Hierarchy::add_element, lines 12-28; parent is None or << p >> for Some(p)
AddElement(h, term, parent) ==
  IF term \in DOMAIN h.nodes
  THEN [h EXCEPT !.panicked = TRUE]
  ELSE LET inserted == InsertNode(h.nodes, term)
       IN IF parent # None
          THEN IF parent[1] \in DOMAIN inserted
               THEN [h EXCEPT !.nodes = [inserted EXCEPT ![parent[1]] = Append(@, term)]]
               ELSE [h EXCEPT !.nodes = inserted, !.panicked = TRUE]
          ELSE [h EXCEPT !.nodes = inserted, !.roots = Append(@, term)]

\* get_child_terms, lines 30-37: None for a term that is no element
GetChildTerms(h, term) ==
  IF term \in DOMAIN h.nodes THEN << h.nodes[term] >> ELSE None

\* get_root_terms, lines 39-41
GetRootTerms(h) == h.roots

HierarchyInit ==
  /\ NoPipeline
  /\ IndexIdle
  /\ IterIdle
  /\ PureIdle

\* one call of add_element; a panic ends the use of the hierarchy
CallAddElement ==
  /\ ~hierarchy.panicked
  /\ Len(args) < MaxAdds
  /\ \E term \in HierarchyTerms, parent \in ParentChoices :
       /\ hierarchy' = AddElement(hierarchy, term, parent)
       /\ args' = Append(args, << term, parent >>)
  /\ UNCHANGED << returned, walk, pipeVars, indexVars, iterVars >>

SpecHierarchy == HierarchyInit /\ [][CallAddElement]_vars

(***************************************************************************)
(* The sort and group of sort_and_group_chunk on one buffer: up to MaxLen  *)
(* triples in which the triples of each term are in non-decreasing doc     *)
(* order, as index_documents fills a buffer; and the buffer of             *)
(* tests::basic_sorting.                                                   *)
(***************************************************************************)
TripleChoices == (0 .. 2) \X (0 .. 1) \X (0 .. 1)

DocOrderPerTerm(chunk) ==
  \A i \in 1 .. Len(chunk), j \in 1 .. Len(chunk) :
    (i < j /\ chunk[i][1] = chunk[j][1]) => chunk[i][2] <= chunk[j][2]

BasicSortingChunk == << <<0, 0, 1>>, <<0, 0, 2>>, <<1, 0, 3>>, <<0, 1, 0>> >>

SortGroupInit ==
  /\ NoPipeline
  /\ IndexIdle
  /\ IterIdle
  /\ returned = NotReturned
  /\ walk = NoWalk
  /\ hierarchy = NewHierarchy
  /\ \/ \E n \in 0 .. MaxLen : \E chunk \in [1 .. n -> TripleChoices] :
          DocOrderPerTerm(chunk) /\ args = chunk
     \/ args = BasicSortingChunk

CallSortAndGroup ==
  /\ ~returned.done
  /\ returned' = [done |-> TRUE, value |-> SortAndGroup(args)]
  /\ UNCHANGED << args, walk, hierarchy, pipeVars, indexVars, iterVars >>

SpecSortGroup == SortGroupInit /\ [][CallSortAndGroup]_vars

(***************************************************************************)
(* write_listing called on its own: a listing with strictly ascending doc  *)
(* ids, none below the base, and ascending positions, as invert_index      *)
(* passes it; and the listing of tests::write_listing_basic.               *)
(***************************************************************************)
PositionChoices == { <<0>>, <<1, 2, 3>>, <<0, 200>>, <<130, 131>> }

WriteListingBasic == << << <<0, <<0, 1, 2>> >>, <<1, <<1, 2, 3>> >> >>, 0 >>

WriteListingInit ==
  /\ NoPipeline
  /\ IndexIdle
  /\ IterIdle
  /\ returned = NotReturned
  /\ walk = NoWalk
  /\ hierarchy = NewHierarchy
  /\ \/ \E S \in SUBSET (0 .. MaxDocId), base_doc_id \in 0 .. MaxDocId :
          \E ps \in [1 .. Cardinality(S) -> PositionChoices] :
            /\ \A d \in S : base_doc_id <= d
            /\ args = << [k \in 1 .. Cardinality(S) |-> << AscendingOf(S)[k], ps[k] >>],
                         base_doc_id >>
     \/ args = WriteListingBasic

CallWriteListing ==
  /\ ~returned.done
  /\ returned' = [done |-> TRUE, value |-> WriteListing(args[1], args[2])]
  /\ UNCHANGED << args, walk, hierarchy, pipeVars, indexVars, iterVars >>

SpecWriteListing == WriteListingInit /\ [][CallWriteListing]_vars

(***************************************************************************)
(* Properties of the indexing pipeline.                                    *)
(***************************************************************************)
RECURSIVE StrictlyAscending(_)
StrictlyAscending(xs) ==
  \/ Len(xs) <= 1
  \/ /\ xs[1] < xs[2]
     /\ StrictlyAscending(Tail(xs))

\* the doc ids of the triples a grouped chunk holds
DocsOfChunk(grouped) ==
  UNION { { grouped[e][2][k][1] : k \in 1 .. Len(grouped[e][2]) } : e \in 1 .. Len(grouped) }

\* C1: the merger receives the grouped chunks in chunk-sequence order
\* 0,1,2,..., whatever order the sorters finish in, so every triple of a
\* document reaches the merger before any triple of a later document.
C1_OrderedHandOff ==
  /\ \A i \in 1 .. Len(received) : received[i][1] = i - 1
  /\ \A i \in 1 .. Len(merged_ch) : merged_ch[i][1] = Len(received) + i - 1
  /\ \A i, j \in 1 .. Len(received) :
       i < j => \A d \in DocsOfChunk(received[i][2]) :
                  \A e \in DocsOfChunk(received[j][2]) : d < e

\* a sorter has finished a later chunk and waits at the counter while an
\* earlier chunk is still to be handed off, after two chunks with triples
\* have reached the merger
C1_Witness ==
  /\ Len(received) >= 2
  /\ DocsOfChunk(received[2][2]) # {}
  /\ \E s \in Sorters : sorter[s].pc = "load" /\ sorter[s].id > sync

SomeThreadPanicked == mpc = "panicked" \/ \E s \in Sorters : sorter[s].pc = "panicked"

\* C2: when the merger or a sorter has panicked, whatever index_documents
\* returns is Err(Indexing(ThreadPanic)), never Ok and never another error.
C2_ThreadPanicReported ==
  (ppc = "returned" /\ SomeThreadPanicked) => result = "ThreadPanic"

\* the producer was still sending when its send to a panicked sorter failed
C2_Witness ==
  /\ ppc = "returned"
  /\ mpc = "panicked"
  /\ join_index = 0
  /\ sorter[0].pc # "panicked"
  /\ \E s \in Sorters : sorter[s].pc = "panicked"
  /\ result = "ThreadPanic"

AllFinished ==
  /\ ppc = "returned"
  /\ \A s \in Sorters : SorterGone(s)
  /\ MergerGone

\* C3: once a sorter has failed, the producer, every remaining sorter and the
\* joins all finish and index_documents returns an error: there is no state
\* in which a thread is still waiting and no thread can take a step.
C3_NoThreadWaitsForever ==
  (\E s \in Sorters : sorter[s].pc = "panicked")
    => \/ ENABLED Next
       \/ AllFinished /\ result # "Ok"

\* C4: when write_listing fails in the merger, index_documents returns that
\* write error.
C4_WriteErrorReturned ==
  (ppc = "returned" /\ fault = "write_error") => result = "WriteError"

DocIdsOf(listing) == [k \in 1 .. Len(listing) |-> listing[k][1]]

\* C5: for each term id the doc ids of the postings appended to storage are
\* strictly ascending over all chunks, and no delta computed in write_listing
\* goes below zero.
C5_AscendingDocIds ==
  /\ \A t \in 1 .. Len(appended) : StrictlyAscending(DocIdsOf(appended[t]))
  /\ fault # "underflow"

\* a term whose postings were appended from two chunks, two from one of them
C5_Witness ==
  /\ Len(received) >= 2
  /\ mpc = "recv"
  /\ \E t \in 1 .. Len(appended) : Len(appended[t]) >= 4


\* the grouped chunks the merger has received, in order
DocsFed == [i \in 1 .. Len(received) |-> received[i][2]]

\* C6: when index_documents has returned Ok, every term's stored bytes equal
\* the bytes the batch path (Index::index_collection on a new Index) stores
\* for the same documents in the same order.
C6_ByteIdentical ==
  (ppc = "returned" /\ result = "Ok") =>
    \A term \in DOMAIN term_ids :
      StoredBytes(storage, term_ids[term]) = IndexStoredBytes(IndexCollection(NewIndex, docs), term)

\* the DocIds of the documents, numbered from 0 as given, that contain a term
RECURSIVE DocsContaining(_, _, _)
DocsContaining(documents, term, doc_id) ==
  IF documents = <<>> THEN <<>>
  ELSE (IF \E k \in 1 .. Len(Head(documents)) : Head(documents)[k] = term
        THEN << doc_id >> ELSE <<>>)
       \o DocsContaining(Tail(documents), term, doc_id + 1)

Committed(index) ==
  \A i \in 1 .. Len(index.listings) : index.listings[i][2].pending = <<>>

\* C8: on a committed index, query_atom returns the DocIds of exactly the
\* documents whose term stream contained the atom, ascending, each once.
C8_QueryAtomExact ==
  (answer.asked /\ Committed(idx)) =>
    answer.postings = DocsContaining(indexed, answer.atom, 0)

\* a term occurring twice in documents 0 and 2 and not in document 1, queried
\* after index_document calls and a commit
C8_Witness ==
  /\ answer.asked /\ Committed(idx)
  /\ answer.atom = "a"
  /\ Len(indexed) >= 3
  /\ indexed[1] = <<"a", "b", "a">> /\ indexed[2] = <<"b">> /\ indexed[3] = <<"a", "b", "a">>
  /\ SubSeq(answer.postings, 1, 2) = << 0, 2 >>

(***************************************************************************)
(* Properties of the n-ary iterators.                                      *)
(***************************************************************************)
OperandDocIds(op) == { op.postings[k][1] : k \in 1 .. Len(op.postings) }

InEveryOperand(it) ==
  { d \in 0 .. MaxDocId : \A k \in 1 .. Len(it.operands) : d \in OperandDocIds(it.operands[k]) }

InSomeOperand(it) ==
  { d \in 0 .. MaxDocId : \E k \in 1 .. Len(it.operands) : d \in OperandDocIds(it.operands[k]) }

Exhausted == drained # <<>> /\ Last(drained) = None

\* the DocIds of the postings returned so far
ReturnedDocIds ==
  LET present == IF Exhausted THEN SubSeq(drained, 1, Len(drained) - 1) ELSE drained
  IN [k \in 1 .. Len(present) |-> present[k][1]]

IsPrefix(s, t) == Len(s) <= Len(t) /\ SubSeq(t, 1, Len(s)) = s

\* what draining returns: a prefix of the expected DocIds while it runs, all
\* of them once next() has returned absent
DrainsTo(expected) ==
  IF Exhausted THEN ReturnedDocIds = expected ELSE IsPrefix(ReturnedDocIds, expected)

\* C9: draining an AND iterator returns the DocIds present in every operand,
\* each once, strictly ascending, for any number of operands in any order of
\* their estimates.
C9_AndIntersection ==
  nary.bool_operator = "And" => DrainsTo(AscendingOf(InEveryOperand(nary)))

\* three operands, reordered by their estimates, with two common DocIds and a
\* DocId missing from one operand in between, drained to the end
C9_Witness ==
  /\ nary.bool_operator = "And" /\ Exhausted
  /\ Len(nary.operands) = 3
  /\ ReturnedDocIds = << 0, 2 >>
  /\ Len(nary.operands[1].postings) = 3 /\ nary.operands[1].estimate = MaxDocId + 1
  /\ Len(nary.operands[2].postings) = 2

\* the positions of a DocId in an operand (none when the operand lacks it)
OperandPositions(op, d) ==
  UNION { { op.postings[k][2][j] : j \in 1 .. Len(op.postings[k][2]) } :
            k \in { m \in 1 .. Len(op.postings) : op.postings[m][1] = d } }

\* the DocIds in which, for some position p, every operand occurs at p plus
\* its relative position
Aligned(it) ==
  { d \in 0 .. MaxDocId + 1 :
      \E p \in 0 .. MaxPosition :
        \A k \in 1 .. Len(it.operands) :
          p + it.operands[k].relative_position \in OperandPositions(it.operands[k], d) }

\* C11: draining an InOrder iterator returns, strictly ascending and each
\* once, exactly the DocIds in which the operands occur at consecutive
\* positions p, p+1, ... in the order of their relative positions.
C11_InOrderPhrase ==
  nary.pos_operator = "InOrder" => DrainsTo(AscendingOf(Aligned(nary)))

\* a phrase of two terms found in documents 0 and 2; document 1 holds both
\* terms but not next to each other in that order
C11_Witness ==
  /\ nary.pos_operator = "InOrder" /\ Exhausted
  /\ Len(nary.operands) = 2
  /\ ReturnedDocIds = << 0, 2 >>
  /\ \A k \in 1 .. 2 : OperandPositions(nary.operands[k], 1) # {}
  /\ \E k \in 1 .. 2 : Len(nary.operands[k].postings[3][2]) = 2

\* the iterator as it was built: nothing consumed, nothing cached
Rewind(it) ==
  [it EXCEPT !.peeked_value = None,
             !.operands = [k \in 1 .. Len(@) |-> [@[k] EXCEPT !.pos = 0]]]

\* what repeated next() returns until it returns absent
RECURSIVE DrainAll(_)
DrainAll(it) ==
  IF IterNext(it).value = None THEN <<>>
  ELSE << IterNext(it).value >> \o DrainAll(IterNext(it).it)

\* C12: a peek() is followed by a call returning the posting it returned, and
\* the postings next() returns are those a drain without any peek() returns.
C12_PeekDoesNotConsume ==
  /\ \A i \in 1 .. Len(calls) - 1 :
       calls[i].method = "peek" => calls[i + 1].value = calls[i].value
  /\ IsPrefix(drained, Append(DrainAll(Rewind(nary)), None))

\* two peeks and the next() after them return the same posting, and the peek
\* after that next() returns a later one
C12_Witness ==
  /\ Len(calls) >= 4
  /\ calls[1].method = "peek" /\ calls[2].method = "peek" /\ calls[3].method = "next"
  /\ calls[4].method = "peek"
  /\ calls[1].value # None /\ calls[4].value # None
  /\ calls[4].value[1] > calls[3].value[1]

\* the DocIds returned by next() and next_seek() before call i
ReturnedBefore(i) ==
  { calls[j].value[1] :
      j \in { m \in 1 .. i - 1 : calls[m].method \in {"next", "next_seek"} /\ calls[m].value # None } }

EndedBefore(i) ==
  \E j \in 1 .. i - 1 : calls[j].method \in {"next", "next_seek"} /\ calls[j].value = None

\* the DocIds a seek to the target at call i may still return
Candidates(i) ==
  { d \in { DrainAll(Rewind(nary))[k][1] : k \in 1 .. Len(DrainAll(Rewind(nary))) } :
      /\ ~EndedBefore(i)
      /\ d >= calls[i].target[1]
      /\ \A r \in ReturnedBefore(i) : d > r }

SeekResult(i) ==
  IF Candidates(i) = {} THEN calls[i].value = None
  ELSE calls[i].value # None /\ calls[i].value[1] = Min(Candidates(i))

\* C13: next_seek(target) returns the first posting not yet returned whose
\* DocId is at least the target's, also when a posting is cached by a peek.
C13_NextSeekFirstAtOrAfter ==
  \A i \in 1 .. Len(calls) : calls[i].method = "next_seek" => SeekResult(i)

\* C14: peek_seek(target) returns the posting next_seek(target) would return,
\* absent or with a DocId at least the target's, cached value or not.
C14_PeekSeekIsPeekAfterSeek ==
  \A i \in 1 .. Len(calls) :
    calls[i].method = "peek_seek" => ~calls[i].panicked /\ SeekResult(i)

\* C15: estimate_length() is at least the number of postings a drain
\* returns, every operand's estimate being at least its length.
C15_EstimateUpperBound ==
  (Exhausted /\ \A k \in 1 .. Len(nary.operands) :
                  nary.operands[k].estimate >= Len(nary.operands[k].postings))
    => Len(ReturnedDocIds) <= NaryEstimateLength(nary)

\* how often x occurs in a sequence
Occurrences(seq, x) == Cardinality({ k \in 1 .. Len(seq) : seq[k] = x })

\* the positions of the two lists of a call
PositionsIn(seq) == { seq[k] : k \in 1 .. Len(seq) }

\* C16: positional_intersect returns the pair (lhs[i], rhs[j]) once for every
\* index pair (i, j) with lo <= lhs[i] - rhs[j] <= hi, and nothing else.
C16_AllPairsOnce ==
  returned.done =>
    LET lhs == args[1]
        rhs == args[2]
        lo == args[3][1]
        hi == args[3][2]
    IN /\ \A x \in PositionsIn(lhs), y \in PositionsIn(rhs) :
            Occurrences(returned.value, << x, y >>) =
              IF lo <= x - y /\ x - y <= hi
              THEN Occurrences(lhs, x) * Occurrences(rhs, y) ELSE 0
       /\ \A k \in 1 .. Len(returned.value) :
            returned.value[k][1] \in PositionsIn(lhs) /\ returned.value[k][2] \in PositionsIn(rhs)

\* a call with matches found downwards and to the right of a match, a
\* position occurring twice and pairs outside the bounds
C16_Witness ==
  /\ returned.done
  /\ args = << <<0, 1, 1>>, <<0, 1, 3>>, <<0, 1>> >>
  /\ Len(returned.value) = 5

\* C17 as stated: the table call yields the four pairs (3,4), (4,4), (4,5),
\* (8,7), in whatever order.
C17_TablePairs ==
  (returned.done /\ args = TableCall) =>
    /\ Len(returned.value) = 4
    /\ { returned.value[k] : k \in 1 .. Len(returned.value) } =
         { <<3, 4>>, <<4, 4>>, <<4, 5>>, <<8, 7>> }

\* C17 amended: the table call yields (1,0), (3,4), (4,4), (4,5), (8,7), in
\* the order of the walk.
C17_TablePairsWithFirst ==
  (returned.done /\ args = TableCall) =>
    returned.value = << <<1, 0>>, <<3, 4>>, <<4, 4>>, <<4, 5>>, <<8, 7>> >>

C17_Witness ==
  returned.done /\ args = TableCall /\ Len(returned.value) = 5

\* the distinct values of a set of numbers, ascending, and the elements of a
\* sequence that satisfy a test given as the set of their indices
RECURSIVE Pick(_, _, _)
Pick(seq, keep, k) ==
  IF k > Len(seq) THEN <<>>
  ELSE (IF k \in keep THEN << seq[k] >> ELSE <<>>) \o Pick(seq, keep, k + 1)

TriplesOf(chunk, term_id) == Pick(chunk, { k \in 1 .. Len(chunk) : chunk[k][1] = term_id }, 1)

\* the postings a term's triples stand for: one per doc id, in input order,
\* with the positions in input order
ExpectedListing(triples) ==
  LET docs_in_order == Dedup([k \in 1 .. Len(triples) |-> triples[k][2]])
  IN [j \in 1 .. Len(docs_in_order) |->
        << docs_in_order[j],
           LET own == Pick(triples, { k \in 1 .. Len(triples) : triples[k][2] = docs_in_order[j] }, 1)
           IN [k \in 1 .. Len(own) |-> own[k][3]] >>]

ExpectedGroups(chunk) ==
  LET tids == AscendingOf({ chunk[k][1] : k \in 1 .. Len(chunk) })
  IN [n \in 1 .. Len(tids) |-> << tids[n], ExpectedListing(TriplesOf(chunk, tids[n])) >>]

\* C18: the grouped chunk has one entry per term id, ascending; an entry's
\* listing has one posting per doc id in input order, with that (term, doc)'s
\* positions in input order.
C18_SortAndGroup ==
  returned.done => returned.value = ExpectedGroups(args)

\* the buffer [(0,0,1),(0,0,2),(1,0,3),(0,1,0)] and its grouped chunk
C18_Witness ==
  /\ returned.done
  /\ args = BasicSortingChunk
  /\ returned.value = << <<0, << <<0, <<1, 2>> >>, <<1, <<0>> >> >> >>,
                         <<1, << <<0, <<3>> >> >> >> >>

\* the numbers write_listing is to write for posting k of a listing
ExpectedValues(listing, base_doc_id, k) ==
  LET doc_id == listing[k][1]
      positions == listing[k][2]
  IN << doc_id - (IF k = 1 THEN base_doc_id ELSE listing[k - 1][1]), Len(positions) >>
     \o [j \in 1 .. Len(positions) |-> positions[j] - (IF j = 1 THEN 0 ELSE positions[j - 1])]

\* C19: the bytes written decode to, for each posting in order, the doc id
\* delta, the number of positions and the position deltas; the value returned
\* is the last doc id written, the base for an empty listing.
C19_WriteListing ==
  returned.done =>
    LET listing == args[1]
        base_doc_id == args[2]
    IN /\ VByteDecoder(returned.value.bytes) =
            Flatten([k \in 1 .. Len(listing) |-> ExpectedValues(listing, base_doc_id, k)])
       /\ returned.value.result =
            IF listing = <<>> THEN base_doc_id ELSE listing[Len(listing)][1]

\* the listing [(0,[0,1,2]),(1,[1,2,3])] with base 0
C19_Witness ==
  /\ returned.done
  /\ args = WriteListingBasic
  /\ VByteDecoder(returned.value.bytes) = <<0, 3, 0, 1, 1, 1, 3, 1, 1, 1>>
  /\ returned.value.result = 1

\* C20: index_document returns the number of documents given to the Index
\* before it, by index_document or index_collection, commits or not.
C20_DocIdsInCallOrder ==
  [][returned' # returned => returned'.done /\ returned'.value = Len(indexed)]_vars

\* index_document has returned DocId 3 on a committed index
C20_Witness ==
  /\ returned.done
  /\ returned.value = 3
  /\ Len(indexed) = 4
  /\ Committed(idx)
  /\ indexed[2] # <<>>

\* C10: draining an OR iterator returns the DocIds present in at least one
\* operand, each once, strictly ascending, and a DocId returned has been
\* consumed from every operand that holds it.
C10_OrUnion ==
  nary.bool_operator = "Or" =>
    /\ DrainsTo(AscendingOf(InSomeOperand(nary)))
    /\ \A k \in 1 .. Len(nary.operands) :
         \A j \in 1 .. Len(ReturnedDocIds) :
           OperandPeek(nary.operands[k]) = None
             \/ OperandPeek(nary.operands[k])[1] > ReturnedDocIds[j]

\* a DocId held by several operands and DocIds held by one only, drained
C10_Witness ==
  /\ nary.bool_operator = "Or" /\ Exhausted
  /\ Len(nary.operands) = 3
  /\ ReturnedDocIds = << 0, 1, 2 >>
  /\ OperandDocIds(nary.operands[1]) = {1}
  /\ OperandDocIds(nary.operands[2]) = {0, 1}
  /\ OperandDocIds(nary.operands[3]) = {1, 2}

\* C7: decoding the stored stream of a term yields exactly the concatenation
\* of the listings written for it, whether written in one chunk or appended
\* to in several, also when a listing or a posting overflows a storage chunk.
C7_DecodeYieldsListings ==
  (fault = "none") =>
     /\ Len(storage) = Len(appended)
     /\ \A t \in 1 .. Len(storage) : DecodeFromStorage(storage, t - 1) = appended[t]
     /\ (mpc = "done_ok" =>
           \A t \in FeedTerms :
             IF t < Len(storage)
             THEN DecodeFromStorage(storage, t) = ListingOf(DocsFed, t)
             ELSE ListingOf(DocsFed, t) = <<>>)

\* a term written in one chunk and appended to in a later one, its stream
\* spread over several storage chunks and holding a two-byte value
C7_Witness ==
  /\ mpc = "done_ok"
  /\ Len(received) = 2
  /\ Len(storage) = 2
  /\ Len(storage[1].chunks) >= 3
  /\ Len(appended[1]) >= 3
  /\ \E k \in 1 .. Len(appended[1]) : appended[1][k][1] >= 128

(***************************************************************************)
(* Properties of the vocabulary built by the producer loop.                *)
(***************************************************************************)
\* the distinct terms seen so far, in order of first sight, after one more term
SeenAfter(seen, term) ==
  IF \E i \in 1 .. Len(seen) : seen[i] = term THEN seen ELSE Append(seen, term)

NumberedByFirstSight(vocabulary, seen) ==
  /\ DOMAIN vocabulary = { seen[i] : i \in 1 .. Len(seen) }
  /\ \A i \in 1 .. Len(seen) : vocabulary[seen[i]] = i - 1

Kept(before, after) ==
  \A t \in DOMAIN before : t \in DOMAIN after /\ after[t] = before[t]

\* the vocabulary walked through the rest of the term stream by lines 54-60:
\* at every point it is numbered by first sight and keeps what it had, and
\* at the end it is the vocabulary final
RECURSIVE VocabularyWalk(_, _, _, _)
VocabularyWalk(rest, seen, vocabulary, final) ==
  /\ NumberedByFirstSight(vocabulary, seen)
  /\ IF rest = <<>> THEN vocabulary = final
     ELSE LET next == AssignTermId(vocabulary, Head(rest))
          IN /\ Kept(vocabulary, next)
             /\ VocabularyWalk(Tail(rest), SeenAfter(seen, Head(rest)), next, final)

\* C21: at every point of the producer loop (after every term of every
\* document) the vocabulary maps the distinct terms seen so far one-to-one
\* onto 0..n-1 in order of first sight; from one term to the next every entry
\* stays and keeps its id.
C21_VocabularyOneToOne == VocabularyWalk(Flatten(docs), <<>>, << >>, term_ids)

\* a term seen again after another term was numbered: "b" first, then "a", "b", "a"
C21_Witness ==
  /\ ppc \in {"loop", "send"}
  /\ Len(docs) >= 2
  /\ DOMAIN term_ids = {"a", "b"}
  /\ term_ids["b"] = 0
  /\ term_ids["a"] = 1

(***************************************************************************)
(* Properties of the Index across commits.                                 *)
(***************************************************************************)
NeverIndexed(term) ==
  \A d \in 1 .. Len(indexed) : \A k \in 1 .. Len(indexed[d]) : indexed[d][k] # term

\* C22: query_atom for a term that no indexed document contains returns the
\* empty result, whatever the index holds: nothing, postings not yet
\* committed, committed postings.
C22_MissingTermEmpty ==
  (answer.asked /\ NeverIndexed(answer.atom)) => answer.postings = <<>>

\* a missing term queried on an index holding committed postings and
\* postings not yet committed
C22_Witness ==
  /\ answer.asked /\ NeverIndexed(answer.atom)
  /\ \E i \in 1 .. Len(idx.listings) : idx.listings[i][2].stored # <<>>
  /\ \E i \in 1 .. Len(idx.listings) : idx.listings[i][2].pending # <<>>

\* the last call that changed the index was a commit
EndsWithCommit == commits # <<>> /\ Last(commits) = Len(indexed)

\* C23: when the calls so far end with a commit, query_atom(t) returns the
\* documents containing t among those indexed before an earlier commit,
\* followed by those among the documents indexed after it, DocIds ascending.
C23_CommitDoesNotFreeze ==
  (answer.asked /\ EndsWithCommit) =>
    /\ StrictlyAscending(answer.postings)
    /\ \A c \in 1 .. Len(commits) :
         answer.postings =
           DocsContaining(SubSeq(indexed, 1, commits[c]), answer.atom, 0)
           \o DocsContaining(SubSeq(indexed, commits[c] + 1, Len(indexed)),
                             answer.atom, commits[c])

\* as tests::mutable_index: documents, a commit, more documents, a commit,
\* and a term of documents on both sides of the first commit
C23_Witness ==
  /\ answer.asked /\ EndsWithCommit
  /\ Len(commits) = 2
  /\ 0 < commits[1] /\ commits[1] < commits[2]
  /\ \E i, j \in 1 .. Len(answer.postings) :
       answer.postings[i] < commits[1] /\ answer.postings[j] >= commits[1]

RECURSIVE IndexEach(_, _)
IndexEach(index, documents) ==
  IF documents = <<>> THEN index
  ELSE IndexEach(IndexDocument(index, Head(documents)), Tail(documents))

\* the index is what one index_collection call made of a new index
FromOneCollection ==
  /\ indexed # <<>>
  /\ commits = << Len(indexed) >>
  /\ idx = IndexCollection(NewIndex, indexed)

\* C24: an index built by one index_collection call on a new index answers
\* query_atom, for every term, as an index built by index_document on each
\* document in order and a commit.
C24_CollectionAsDocuments ==
  FromOneCollection =>
    \A atom \in AtomChoices :
      QueryAtom(idx, atom) = QueryAtom(Commit(IndexEach(NewIndex, indexed)), atom)

\* a collection of two documents sharing a term, one of them holding it twice
C24_Witness ==
  /\ FromOneCollection
  /\ Len(indexed) = 2
  /\ indexed[1] = <<"a", "b", "a">>
  /\ QueryAtom(idx, "a") = << 0, 1 >>
  /\ answer.asked /\ answer.atom = "a" /\ answer.postings = << 0, 1 >>

\* how often a term occurs in a document, and how many postings a listing
\* holds for a document
OccurrencesIn(document, term) ==
  Cardinality({ k \in 1 .. Len(document) : document[k] = term })

PostingsFor(index, term, doc_id) ==
  IF term \in DOMAIN index.vocabulary /\ Found(index.listings, index.vocabulary[term])
  THEN LET listing == index.listings[SearchIndex(index.listings, index.vocabulary[term])][2]
           all == listing.stored \o listing.pending
       IN Cardinality({ k \in 1 .. Len(all) : all[k] = doc_id })
  ELSE 0

\* the index holds what index_document calls alone made of it
OnlyDocuments == idx = IndexEach(NewIndex, indexed) \/ idx = Commit(IndexEach(NewIndex, indexed))

\* C25: what index_document stores for a document keeps every occurrence of
\* a term: as many entries for the term and the document as the document
\* has positions holding the term.
C25_PositionsPreserved ==
  OnlyDocuments =>
    \A d \in 1 .. Len(indexed) : \A term \in AtomChoices :
      PostingsFor(idx, term, d - 1) = OccurrencesIn(indexed[d], term)

(***************************************************************************)
(* Properties of what index_documents returns.                             *)
(***************************************************************************)
\* C26: when index_documents returns Ok, the document count it returns is
\* the number of documents consumed from the input and storage.len() is the
\* number of entries of the vocabulary it returns.
C26_CountsOnSuccess ==
  result = "Ok" =>
    /\ document_count = Len(docs)
    /\ StorageLen(storage) = Cardinality(DOMAIN term_ids)

\* a successful run over documents without terms followed by documents with
\* two terms between them, in more than one buffer
C26_Witness ==
  /\ result = "Ok"
  /\ Len(docs) >= 3
  /\ docs[1] = << >>
  /\ Cardinality(DOMAIN term_ids) = 2
  /\ chunk_count >= 1

(***************************************************************************)
(* Properties of the merger's bookkeeping.                                 *)
(***************************************************************************)
\* C27: whenever the merger has completely written postings for a term, the
\* last_doc_id of the term's chunk is the doc id of the last of them, also
\* when a write for a later posting of the same listing has failed.
C27_LastDocIdAfterEachPosting ==
  \A t \in 1 .. Len(storage) :
    appended[t] # <<>> => storage[t].last_doc_id = Last(appended[t])[1]

\* C28: the call the merger is about to make for the next entry of its
\* chunk: get_current_mut(t) only for a term that has storage, new_chunk(t)
\* only for the term whose id is the number of terms with storage; so head
\* chunks are created one per term in ascending term-id order without gaps.
C28_HeadChunksInOrder ==
  mpc = "write" =>
    LET term_id == Head(mchunk)[1]
    IN IF UsesCurrentChunk(term_id, threshold)
       THEN term_id < StorageLen(storage)
       ELSE term_id = StorageLen(storage)

\* the second new term of one grouped chunk: its id is above the threshold
\* read when the chunk was received
C28_Witness ==
  /\ ppc # "feed"
  /\ mpc = "write"
  /\ Head(mchunk)[1] > threshold
  /\ StorageLen(storage) = Head(mchunk)[1]

(***************************************************************************)
(* Properties of the producer's hand-off.                                  *)
(***************************************************************************)
\* the triples of the documents from..to of the input (counted from 0), in
\* document then position order
RECURSIVE TriplesOfDocuments(_, _)
TriplesOfDocuments(from, to) ==
  IF from > to THEN <<>>
  ELSE [p \in 1 .. Len(docs[from + 1]) |-> << term_ids[docs[from + 1][p]], from, p - 1 >>]
       \o TriplesOfDocuments(from + 1, to)

\* a step that puts a buffer into the channel of sorter s
HandsOff(s) == Len(chunk_ch'[s]) > Len(chunk_ch[s])

\* C29: the producer hands a buffer off after every DOCS_PER_CHUNK-th
\* document (none is due while it reads on) and once more at the end of the
\* input; the buffer with sequence number k holds the triples of documents
\* DOCS_PER_CHUNK*k .. DOCS_PER_CHUNK*k + DOCS_PER_CHUNK - 1 as far as they
\* exist, the numbers count up from 0 by one, the hand-off at the end is the
\* last, and buffer k goes to sorter k mod SORT_THREADS.
C29_BuffersHandedOff ==
  /\ [](ppc = "loop" => /\ chunk_count = document_count \div DOCS_PER_CHUNK
                        /\ buffer = TriplesOfDocuments(DOCS_PER_CHUNK * chunk_count,
                                                        document_count - 1))
  /\ [][\A s \in Sorters : HandsOff(s) =>
          LET k == Last(chunk_ch'[s])[1]
              sent == Last(chunk_ch'[s])[2]
          IN /\ k = chunk_count
             /\ s = k % SORT_THREADS
             /\ document_count = Len(docs)
             /\ IF ppc = "send"
                THEN /\ document_count = DOCS_PER_CHUNK * (k + 1)
                     /\ chunk_count' = k + 1
                     /\ ppc' = "loop"
                ELSE /\ ppc = "final_send"
                     /\ DOCS_PER_CHUNK * k <= document_count
                     /\ document_count < DOCS_PER_CHUNK * (k + 1)
                     /\ ppc' = "join_sort"
             /\ sent = TriplesOfDocuments(DOCS_PER_CHUNK * k, document_count - 1)]_vars

\* the input ended right after a hand-off: the last buffer, empty, went to
\* the sorter that had the first one
C29_Witness ==
  /\ ppc = "join_sort"
  /\ chunk_count = SORT_THREADS
  /\ document_count = DOCS_PER_CHUNK * chunk_count
  /\ Cardinality(DOMAIN term_ids) = 2

(***************************************************************************)
(* Properties of the operand order of an InOrder iterator.                 *)
(***************************************************************************)
\* C30: operand i of an InOrder iterator is the leaf with relative_position
\* i (the operands are in the order of the query).
C30_OperandsInQueryOrder ==
  nary.pos_operator = "InOrder" =>
    \A i \in 1 .. Len(nary.operands) : nary.operands[i].relative_position = i - 1

\* C30, amended: the operands of an InOrder iterator are the leaves of the
\* query, each once, in ascending order of estimate_length, and in query
\* order among leaves of equal estimate.
C30_OperandsByEstimate ==
  nary.pos_operator = "InOrder" =>
    LET ops == nary.operands
    IN /\ { ops[i].relative_position : i \in 1 .. Len(ops) } = 0 .. (Len(ops) - 1)
       /\ \A i, j \in 1 .. Len(ops) :
            i < j => \/ ops[i].estimate < ops[j].estimate
                     \/ /\ ops[i].estimate = ops[j].estimate
                        /\ ops[i].relative_position < ops[j].relative_position

\* a phrase of three terms whose last term has the smallest estimate and
\* whose first two have the same: the operands are leaves 2, 0, 1
C30_Witness ==
  /\ nary.pos_operator = "InOrder"
  /\ Len(nary.operands) = 3
  /\ nary.operands[1].relative_position = 2
  /\ nary.operands[2].relative_position = 0
  /\ nary.operands[3].relative_position = 1
  /\ nary.operands[2].estimate = nary.operands[3].estimate
  /\ drained # <<>>

(***************************************************************************)
(* Properties of the loop of positional_intersect.                         *)
(***************************************************************************)
\* C31: every iteration of the loop advances at least one pointer and moves
\* neither back; on a pair outside the bounds the rhs pointer advances when
\* the difference is above hi and the lhs pointer when it is below lo; the
\* loop makes at most len(lhs) + len(rhs) iterations, and what it returns is
\* what the function computes in one go.
C31_LoopAdvances ==
  /\ [](walk.iterations <= Len(args[1]) + Len(args[2]))
  /\ [](returned.done => /\ returned.value = walk.result
                         /\ returned.value = PositionalIntersect(args[1], args[2], args[3]))
  /\ [][walk' # walk =>
          LET diff == args[1][walk.lhs_ptr + 1] - args[2][walk.rhs_ptr + 1]
              lo == args[3][1]
              hi == args[3][2]
          IN /\ walk'.lhs_ptr \in {walk.lhs_ptr, walk.lhs_ptr + 1}
             /\ walk'.rhs_ptr \in {walk.rhs_ptr, walk.rhs_ptr + 1}
             /\ walk'.lhs_ptr + walk'.rhs_ptr > walk.lhs_ptr + walk.rhs_ptr
             /\ diff > hi => walk'.rhs_ptr = walk.rhs_ptr + 1
             /\ diff < lo => walk'.lhs_ptr = walk.lhs_ptr + 1]_vars

\* bounds with lo > hi: nothing matches, the difference 0 is both not above
\* lo and not below hi, and both pointers advance in each iteration
C31_Witness ==
  /\ returned.done
  /\ args = << <<1, 1>>, <<1, 1>>, <<1, -1>> >>
  /\ walk.iterations = 2
  /\ walk.lhs_ptr = 2 /\ walk.rhs_ptr = 2

(***************************************************************************)
(* Termination of a run without failures.                                  *)
(***************************************************************************)
\* index_documents has returned Ok and every buffer handed off was merged
ReturnedOk ==
  /\ ppc = "returned"
  /\ result = "Ok"
  /\ \A s \in Sorters : sorter[s].pc = "done"
  /\ mpc = "done_ok"
  /\ [k \in 1 .. Len(received) |-> received[k][1]] = [k \in 1 .. chunk_count + 1 |-> k - 1]

\* how far each thread has come; every counter in it only grows
ProducerStage ==
  CASE ppc \in {"loop", "send"} -> 0
    [] ppc = "final_send" -> 1
    [] ppc = "join_sort" -> 2
    [] ppc = "join_inv" -> 3
    [] OTHER -> 4

SorterStage(s) ==
  CASE sorter[s].pc = "recv" -> 0
    [] sorter[s].pc = "load" -> 1
    [] sorter[s].pc = "send" -> 2
    [] sorter[s].pc = "fetch_add" -> 3
    [] OTHER -> 1

RECURSIVE SorterStages(_)
SorterStages(S) ==
  IF S = {} THEN 0
  ELSE LET s == CHOOSE x \in S : TRUE IN SorterStage(s) + SorterStages(S \ {s})

RECURSIVE PostingsWritten(_)
PostingsWritten(n) ==
  IF n = 0 THEN 0 ELSE Len(appended[n]) + PostingsWritten(n - 1)

Progress ==
  document_count + chunk_count + join_index + ProducerStage
  + 4 * sync + SorterStages(Sorters)
  + Len(received) + PostingsWritten(Len(appended))
  + (IF mpc = "done_ok" THEN 1 ELSE 0)

\* C32: without failures and under fair scheduling of the producer, the
\* sorters and the merger, index_documents returns Ok after every buffer was
\* sorted, handed off and merged.  Stated as what fairness turns into
\* termination: until index_documents has returned Ok some thread can take
\* a step (no thread set blocks for good, whatever the channels hold and
\* whichever sorter is ahead), and every step of a thread moves the run
\* forward, so no run goes on for ever.  The three CanStep predicates are
\* the guards of the actions of ProducerRuns, SorterRuns and MergerRuns.
ProducerCanStep ==
  \/ ppc = "loop"
  \/ /\ ppc \in {"send", "final_send"}
     /\ ~SorterGone(SorterOf(chunk_count))
     /\ Len(chunk_ch[SorterOf(chunk_count)]) < CHUNK_CHANNEL_CAP
  \/ ppc = "join_sort" /\ join_index < SORT_THREADS /\ SorterGone(join_index)
  \/ ppc = "join_inv" /\ MergerGone

SorterCanStep(s) ==
  \/ sorter[s].pc = "recv" /\ (chunk_ch[s] # <<>> \/ ChunkTxDropped)
  \/ sorter[s].pc = "load" /\ MayHandOff(sync, sorter[s].id)
  \/ sorter[s].pc = "send" /\ ~MergerGone /\ Len(merged_ch) < MERGED_CHANNEL_CAP
  \/ sorter[s].pc = "fetch_add"

MergerCanStep ==
  \/ mpc = "recv" /\ merged_ch # <<>>
  \/ mpc = "recv" /\ MergedTxDropped /\ \A s \in Sorters : SorterGone(s)
  \/ mpc = "write"

SomeThreadCanStep ==
  ReturnedOk \/ ProducerCanStep \/ MergerCanStep \/ \E s \in Sorters : SorterCanStep(s)

EveryStepMovesOn == [][Progress' > Progress]_vars

C32_TerminatesOk == []SomeThreadCanStep /\ EveryStepMovesOn

\* the same as a temporal formula of SpecFair
EventuallyReturnedOk == <>ReturnedOk

\* both channels full, the producer waiting to send a buffer and a sorter
\* ahead of the counter, waiting for its turn
C32_Witness ==
  /\ ppc \in {"send", "final_send"}
  /\ Len(chunk_ch[SorterOf(chunk_count)]) = CHUNK_CHANNEL_CAP
  /\ Len(merged_ch) = MERGED_CHANNEL_CAP
  /\ \E s \in Sorters : sorter[s].pc = "load" /\ sorter[s].id > sync

(***************************************************************************)
(* The hand-off section of sort_and_group_chunk.                           *)
(***************************************************************************)
\* a sorter that has seen the counter equal to its chunk id (line 126) and
\* has not yet incremented it (line 128)
InSection(s) == sorter[s].pc \in {"send", "fetch_add"}

\* the merger's receiver exists, so what was sent is queued or received
ReceiverAlive == mpc \notin {"panicked", "done_err"}

ChunksSent == Len(received) + Len(merged_ch)

\* C33: at most one sorter at a time is between seeing the counter equal to
\* its chunk id and incrementing the counter; the counter changes only by
\* the increment of that sorter, by one, after its one send; and when no
\* sorter is in the section the counter is the number of chunks sent to the
\* merger.
C33_OneSorterInSection ==
  /\ [](\A s, t \in Sorters : InSection(s) /\ InSection(t) => s = t)
  /\ [](\A s \in Sorters : InSection(s) => sorter[s].id = sync)
  /\ [](ReceiverAlive =>
         ChunksSent = sync + (IF \E s \in Sorters : sorter[s].pc = "fetch_add" THEN 1 ELSE 0))
  /\ [][sync' # sync =>
          /\ sync' = sync + 1
          /\ \E s \in Sorters : sorter[s].pc = "fetch_add" /\ ~InSection(s)'
          /\ UNCHANGED merged_ch]_vars
  /\ [][Len(merged_ch') > Len(merged_ch) =>
          /\ \E s \in Sorters : sorter[s].pc = "send" /\ sorter'[s].pc = "fetch_add"
          /\ Len(merged_ch') = Len(merged_ch) + 1
          /\ UNCHANGED sync]_vars

\* a sorter has sent chunk 1 and is about to increment the counter while
\* another sorter holds a later chunk and waits
C33_Witness ==
  /\ sync = 1
  /\ \E s, t \in Sorters :
       /\ sorter[s].pc = "fetch_add"
       /\ sorter[t].pc = "load" /\ sorter[t].id > sync


(***************************************************************************)
(* Determinism of a successful run.                                        *)
(***************************************************************************)
\* the entries of one grouped chunk written one after the other
RECURSIVE MergeChunk(_, _, _)
MergeChunk(st, thr, grouped) ==
  IF grouped = <<>> THEN st
  ELSE MergeChunk(WriteEntry(st, thr, Head(grouped)[1], Head(grouped)[2],
                             NumWrites(Head(grouped)[2]), TRUE),
                  thr, Tail(grouped))

\* the documents indexed by one thread that sorts and merges each buffer as
\* soon as it is full, and the last buffer at the end
RECURSIVE OneByOne(_, _, _, _, _)
OneByOne(documents, count, ids, buf, st) ==
  IF documents = <<>>
  THEN [term_ids |-> ids, document_count |-> count,
        storage |-> MergeChunk(st, StorageLen(st), SortAndGroup(buf))]
  ELSE LET e == EmitDocument(Head(documents), ids, count)
           b == buf \o e.buffer
       IN IF BufferFull(count + 1)
          THEN OneByOne(Tail(documents), count + 1, e.term_ids, <<>>,
                        MergeChunk(st, StorageLen(st), SortAndGroup(b)))
          ELSE OneByOne(Tail(documents), count + 1, e.term_ids, b, st)

\* C34: the result of a successful run depends on the documents only, not
\* on the interleaving of the sorters and the merger: the stored postings
\* of every term, the vocabulary and the document count are those of the
\* one-thread run over the same documents.
C34_ResultDependsOnInputOnly ==
  (ppc = "returned" /\ result = "Ok") =>
    [term_ids |-> term_ids, document_count |-> document_count, storage |-> storage]
      = OneByOne(docs, 0, << >>, <<>>, <<>>)

\* a successful run of three buffers over two sorters, with a term whose
\* postings come from more than one buffer
C34_Witness ==
  /\ ppc = "returned" /\ result = "Ok"
  /\ chunk_count >= 2
  /\ \E k \in 1 .. Len(appended) : Len(appended[k]) >= 2
  /\ Cardinality(DOMAIN term_ids) = 2


(***************************************************************************)
(* The borrows of the peeked_value cell.                                   *)
(***************************************************************************)
\* C35: no call of next, peek, next_seek or peek_seek asks for a mutable
\* borrow of peeked_value while another borrow of it is held, so no sequence
\* of calls ends in a borrow panic.
C35_NoBorrowPanic ==
  \A i \in 1 .. Len(calls) : ~calls[i].panicked


(***************************************************************************)
(* The shape of a Hierarchy.                                               *)
(***************************************************************************)
\* the place of the add_element call for a term in the list of calls
AddedAt(term) == CHOOSE k \in 1 .. Len(args) : args[k][1] = term

\* x is listed once among the children of p, an element added before x
OnlyChildOf(x, p) ==
  /\ p # x
  /\ GetChildTerms(hierarchy, p) # None
  /\ Occurrences(GetChildTerms(hierarchy, p)[1], x) = 1
  /\ AddedAt(p) < AddedAt(x)

\* C36: after add_element calls that do not panic the hierarchy is a forest:
\* every element is listed once among the root terms and is nobody's child,
\* or is listed once among the children of exactly one other element, added
\* before it, and is no root; no element is its own child.
C36_Forest ==
  ~hierarchy.panicked =>
    \A x \in DOMAIN hierarchy.nodes :
      /\ Occurrences(hierarchy.nodes[x], x) = 0
      /\ \/ /\ Occurrences(GetRootTerms(hierarchy), x) = 1
            /\ \A p \in DOMAIN hierarchy.nodes : Occurrences(hierarchy.nodes[p], x) = 0
         \/ /\ Occurrences(GetRootTerms(hierarchy), x) = 0
            /\ \E p \in DOMAIN hierarchy.nodes :
                 /\ OnlyChildOf(x, p)
                 /\ \A q \in DOMAIN hierarchy.nodes \ {p} :
                      Occurrences(hierarchy.nodes[q], x) = 0


====
